---- MODULE Spec2Model ----
(***************************************************************************)
(* Decoding of a PIP solution tree (quast) into a disjoint union of basic  *)
(* maps, after isl_map_piplib.c: extremum_on (lexmax / lexmin),            *)
(* isl_pip_basic_map_compute_divs, isl_map_from_quast, scan_quast_r,       *)
(* find_div and the row helpers.                                           *)
(*                                                                         *)
(* A constraint row is a sequence of integers                              *)
(*   << constant, params.., inputs.., outputs.., divs.. >>                 *)
(* (C index k is TLA+ index k+1).  A PipVector is the sequence of its      *)
(* the_vector entries, the constant last.  A NULL vector or list is <<>>.  *)
(***************************************************************************)
EXTENDS Integers, Sequences, FiniteSets, TLC

VARIABLES
    entry,      \* "lexmax", "lexmin" or "compute_divs": the public entry point called
    bmapArg,    \* the relation argument (bmap)
    domArg,     \* the domain argument (dom), a basic set
    emptyReq,   \* TRUE iff the caller passed a non-NULL "empty" pointer
    solverOut,  \* what pip_solve returns for this call: [null, q]
    failAt,     \* index of the fallible operation that fails (0: none fails)
    pc,         \* position of the top-level call
    tick,       \* number of fallible operations performed so far
    sol,        \* the local "sol" of the entry point: [null, q]
    data,       \* struct scan_data: [bmap, pos, rest] (rest is *data->rest)
    map,        \* the output union threaded through scan_quast_r
    stack,      \* activation records of scan_quast_r, innermost last; cond
                \* is the condition row as the activation wrote it
    counted,    \* results of quast_count: [nexist, max_depth, n_sol, n_nosol]
    returns,    \* history: one record per scan_quast_r activation that returned
    found,      \* history: one record per successful find_div call
    ledger,     \* per intermediate object: [made, freed] counts
    mats,       \* the PipMatrix locals: [domain, context]
    ub,         \* undefined-behaviour events that happened (set of strings)
    result,     \* [map, empty]: what the caller holds after the call
    enc,        \* isl_basic_map_to_pip called directly: its arguments and M
    heap,       \* what the memory handed out for data.pos holds before use
    calls,      \* [made, more]: calls made so far, and whether one is repeated
    prior,      \* how the previous call with the same arguments ended
    steps       \* history: steps scan_quast_r took in this call

vars == << entry, bmapArg, domArg, emptyReq, solverOut, failAt, pc, tick, sol,
           data, map, stack, counted, returns, found, ledger, mats, ub, result,
           enc, heap, calls, prior, steps >>

-----------------------------------------------------------------------------
(* Bounds of the model. *)

\* Input values range over 0..PointMax (the domain {[i] : 0 <= i <= PointMax}).
PointMax == 4
\* Generated solution trees have at most MaxDepth nested branch nodes.
MaxDepth == 1
\* Failure injection: the failing operation is one of the first MaxFail ones.
MaxFail == 14
\* Direct calls of isl_basic_map_to_pip ask for at most MaxPad padding
\* columns in front and at the back.
MaxPad == 1
\* A call is made at most MaxCalls times with the same arguments.
MaxCalls == 2

-----------------------------------------------------------------------------
(* Sequences of integers. *)

Zeros(n) == [k \in 1..n |-> 0]

isl_seq_neg(row) == [k \in 1..Len(row) |-> 0 - row[k]]

\* isl_seq_eq(p1, p2, len): the first len entries agree.
isl_seq_eq(p1, p2, len) == \A k \in 1..len : p1[k] = p2[k]

Max(a, b) == IF a >= b THEN a ELSE b

-----------------------------------------------------------------------------
(* Basic maps.  n_eq, n_ineq and n_div are the lengths of eq, ineq and div; *)
(* c_eq, c_ineq and extra are the allocated capacities.                     *)

n_eq(bmap) == Len(bmap.eq)
n_ineq(bmap) == Len(bmap.ineq)
n_div(bmap) == Len(bmap.div)
total(bmap) == bmap.nparam + bmap.n_in + bmap.n_out + bmap.extra
Counts(bmap) == << n_div(bmap), n_ineq(bmap), n_eq(bmap) >>

\* A NULL isl_basic_map / isl_basic_set pointer.
NullBmap ==
    [null |-> TRUE, nparam |-> 0, n_in |-> 0, n_out |-> 0, extra |-> 0,
     c_eq |-> 0, c_ineq |-> 0, eq |-> <<>>, ineq |-> <<>>, div |-> <<>>]

\* A NULL isl_map / isl_set pointer, and an allocated union of capacity size.
NullMap == [null |-> TRUE, size |-> 0, p |-> <<>>]
isl_map_alloc(size) == [null |-> FALSE, size |-> size, p |-> <<>>]

\* The failure-injection oracle: the t-th fallible operation fails.
Fails(t) == t = failAt

-----------------------------------------------------------------------------
(* Constraint storage of the relation library: allocation and release of    *)
(* rows and existential variables inside the preallocated capacity.         *)

\* isl_basic_map_alloc_div: index of a fresh existential, or failure.
isl_basic_map_alloc_div(bmap, t) ==
    IF Fails(t) \/ n_div(bmap) >= bmap.extra
    THEN [ok |-> FALSE, bmap |-> bmap, i |-> -1]
    ELSE [ok |-> TRUE, i |-> n_div(bmap),
          bmap |-> [bmap EXCEPT !.div = Append(@, Zeros(2 + total(bmap)))]]

\* isl_basic_map_alloc_inequality: index of a fresh inequality row, or failure.
isl_basic_map_alloc_inequality(bmap, t) ==
    IF Fails(t) \/ n_ineq(bmap) >= bmap.c_ineq
    THEN [ok |-> FALSE, bmap |-> bmap, i |-> -1]
    ELSE [ok |-> TRUE, i |-> n_ineq(bmap),
          bmap |-> [bmap EXCEPT !.ineq = Append(@, Zeros(1 + total(bmap)))]]

\* isl_basic_map_alloc_equality: index of a fresh equality row, or failure.
isl_basic_map_alloc_equality(bmap, t) ==
    IF Fails(t) \/ n_eq(bmap) >= bmap.c_eq
    THEN [ok |-> FALSE, bmap |-> bmap, i |-> -1]
    ELSE [ok |-> TRUE, i |-> n_eq(bmap),
          bmap |-> [bmap EXCEPT !.eq = Append(@, Zeros(1 + total(bmap)))]]

\* isl_basic_map_free_div(bmap, n): drop the last n existentials.
isl_basic_map_free_div(bmap, n) ==
    IF n > n_div(bmap) THEN [ok |-> FALSE, bmap |-> bmap]
    ELSE [ok |-> TRUE,
          bmap |-> [bmap EXCEPT !.div = SubSeq(@, 1, Len(@) - n)]]

\* isl_basic_map_free_inequality(bmap, n): drop the last n inequality rows.
isl_basic_map_free_inequality(bmap, n) ==
    IF n > n_ineq(bmap) THEN [ok |-> FALSE, bmap |-> bmap]
    ELSE [ok |-> TRUE,
          bmap |-> [bmap EXCEPT !.ineq = SubSeq(@, 1, Len(@) - n)]]

\* isl_basic_map_free_equality(bmap, n): drop the last n equality rows.
isl_basic_map_free_equality(bmap, n) ==
    IF n > n_eq(bmap) THEN [ok |-> FALSE, bmap |-> bmap]
    ELSE [ok |-> TRUE,
          bmap |-> [bmap EXCEPT !.eq = SubSeq(@, 1, Len(@) - n)]]

\* isl_inequality_negate(bmap, pos): a >= 0 becomes -a - 1 >= 0, in place.
isl_inequality_negate(bmap, pos) ==
    IF pos >= n_ineq(bmap) THEN [ok |-> FALSE, bmap |-> bmap]
    ELSE [ok |-> TRUE,
          bmap |-> [bmap EXCEPT !.ineq[pos + 1] =
                       [isl_seq_neg(@) EXCEPT ![1] = @ - 1]]]

\* isl_basic_map_copy of a non-final basic map: an independent duplicate.
isl_basic_map_copy(bmap, t) == IF Fails(t) THEN NullBmap ELSE bmap

\* isl_map_add / isl_set_add: append a region; NULL on a NULL argument or
\* when the union is full (both arguments are released then).
isl_map_add(m, bmap) ==
    IF m.null \/ bmap.null \/ Len(m.p) >= m.size THEN NullMap
    ELSE [m EXCEPT !.p = Append(@, bmap)]

\* Removal of the columns first+1 .. first+n of a row (C columns first..).
DropCols(row, first, n) ==
    [k \in 1..(Len(row) - n) |-> IF k <= first THEN row[k] ELSE row[k + n]]

\* isl_basic_set_from_basic_map followed by isl_basic_set_drop_vars(bset,
\* n_in, n_out): the output dimensions are removed, the existentials stay.
isl_basic_set_drop_vars(bmap) ==
    IF bmap.null THEN NullBmap
    ELSE LET first == 1 + bmap.nparam + bmap.n_in
             n == bmap.n_out
         IN [bmap EXCEPT
               !.n_out = 0,
               !.eq = [k \in 1..Len(@) |-> DropCols(@[k], first, n)],
               !.ineq = [k \in 1..Len(@) |-> DropCols(@[k], first, n)],
               !.div = [k \in 1..Len(@) |-> DropCols(@[k], first + 1, n)]]

-----------------------------------------------------------------------------
(* Translation of solver vectors into builder rows.                         *)

\* A loop that stores each entry in its column instead of adding it: the
\* last entry of src whose pos entry is p stays.
RECURSIVE set_values(_, _, _, _, _)
set_values(src, pos, pip, p, i) ==
    IF i = 0 THEN 0
    ELSE IF pos[i] = p THEN src[pip + i]
    ELSE set_values(src, pos, pip, p, i - 1)

\* The loop at the end of copy_constraint_from: the sum of the entries of src
\* beyond the first pip ones whose pos entry is p, over loop indices below i.
RECURSIVE add_values(_, _, _, _, _)
add_values(src, pos, pip, p, i) ==
    IF i = 0 THEN 0
    ELSE add_values(src, pos, pip, p, i - 1)
         + (IF pos[i] = p THEN src[pip + i] ELSE 0)

copy_constraint_from(src, nparam, n_in, n_out, extra, pos) ==
    LET nb == Len(src)
        pip == nparam + n_in
    IN [c \in 1..(1 + pip + n_out + extra) |->
          IF c = 1 THEN src[nb]
          ELSE IF c <= 1 + pip THEN src[c - 1]
          ELSE IF c <= 1 + pip + n_out THEN 0
          ELSE add_values(src, pos, pip, c - (1 + pip + n_out) - 1,
                          nb - 1 - pip)]

add_inequality(bmap, pos, vec, t) ==
    LET a == isl_basic_map_alloc_inequality(bmap, t)
    IN IF ~a.ok THEN [ok |-> FALSE, bmap |-> bmap, i |-> -1, t |-> t + 1]
       ELSE [ok |-> TRUE, i |-> a.i, t |-> t + 1,
             bmap |-> [a.bmap EXCEPT !.ineq[a.i + 1] =
                          copy_constraint_from(vec, bmap.nparam, bmap.n_in,
                                               bmap.n_out, bmap.extra, pos)]]

\* A second row -f + m d + m >= 0, one too loose.
div_upper_loose(bmap, c, i, div_pos, t) ==
    IF ~c.ok THEN [ok |-> FALSE, bmap |-> bmap, j |-> -1, t |-> t + 1]
    ELSE LET neg == isl_seq_neg(bmap.ineq[i + 1])
         IN [ok |-> TRUE, j |-> c.i, t |-> t + 1,
             bmap |-> [c.bmap EXCEPT !.ineq[c.i + 1] =
                          [neg EXCEPT ![1] = neg[1] + neg[div_pos + 1]]]]

\* The second row of add_div_constraints, -(f - (m-1)) + m d >= 0, is the
\* negation of the first one (at index i) with its constant adjusted.
div_upper_row(bmap, c, i, div_pos, t) ==
    IF ~c.ok THEN [ok |-> FALSE, bmap |-> bmap, j |-> -1, t |-> t + 1]
    ELSE LET neg == isl_seq_neg(bmap.ineq[i + 1])
         IN [ok |-> TRUE, j |-> c.i, t |-> t + 1,
             bmap |-> [c.bmap EXCEPT !.ineq[c.i + 1] =
                          [neg EXCEPT ![1] = neg[1] + neg[div_pos + 1] - 1]]]

\* The first row of add_div_constraints, f - m d >= 0: the row a of the
\* numerator gets -deno as the coefficient of the div.
div_lower_row(a, div_pos, deno) ==
    IF ~a.ok THEN [ok |-> FALSE, bmap |-> a.bmap, i |-> -1, t |-> a.t]
    ELSE [a EXCEPT !.bmap.ineq[a.i + 1][div_pos + 1] = 0 - deno]

\* The rest of add_div_constraints once the first row l is in place.
div_second(l, div_pos) ==
    IF ~l.ok THEN [ok |-> FALSE, bmap |-> l.bmap, j |-> -1, t |-> l.t]
    ELSE div_upper_row(l.bmap, isl_basic_map_alloc_inequality(l.bmap, l.t),
                       l.i, div_pos, l.t)

\* For a div d = floor(f/m): f - m d >= 0 and -(f - (m-1)) + m d >= 0.
add_div_constraints(bmap, pos, p, div, t) ==
    div_second(div_lower_row(add_inequality(bmap, pos, p.vector, t),
                   1 + bmap.nparam + bmap.n_in + bmap.n_out + div, p.deno),
               1 + bmap.nparam + bmap.n_in + bmap.n_out + div)

add_equality(bmap, pos, var, vec, t) ==
    LET a == isl_basic_map_alloc_equality(bmap, t)
        row == copy_constraint_from(vec, bmap.nparam, bmap.n_in,
                                    bmap.n_out, bmap.extra, pos)
    IN IF ~(var < bmap.n_out) THEN [ok |-> FALSE, bmap |-> bmap, t |-> t]
       ELSE IF ~a.ok THEN [ok |-> FALSE, bmap |-> bmap, t |-> t + 1]
       ELSE [ok |-> TRUE, t |-> t + 1,
             bmap |-> [a.bmap EXCEPT !.eq[a.i + 1] =
                          [row EXCEPT ![1 + bmap.nparam + bmap.n_in + var + 1]
                                         = -1]]]

\* The existentials before the i-th that find_div takes for the i-th: the
\* ones whose row agrees with it on the compared prefix.
same_div(bmap, i) ==
    {j \in 0..(i - 1) :
        isl_seq_eq(bmap.div[i + 1], bmap.div[j + 1],
                   1 + 1 + bmap.nparam + bmap.n_in + bmap.n_out + j)}

\* find_div when no earlier existential matched: the result of adding the
\* two rows of the fresh existential i.
find_div_new(c, i, row) ==
    [ok |-> c.ok, bmap |-> c.bmap, row |-> row,
     pos |-> IF c.ok THEN i ELSE -1, t |-> c.t]

\* find_div after the allocation a of a fresh existential: its row is
\* filled in and compared with the earlier ones.
find_div_search(bmap, a, row, pos, p, t) ==
    IF ~a.ok
    THEN [ok |-> FALSE, bmap |-> bmap, pos |-> -1, t |-> t + 1, row |-> row]
    ELSE LET b1 == [a.bmap EXCEPT !.div[a.i + 1] = row]
             same == same_div(b1, a.i)
         IN IF same # {}
            THEN [ok |-> TRUE, bmap |-> isl_basic_map_free_div(b1, 1).bmap,
                  pos |-> CHOOSE j \in same : \A k \in same : j <= k,
                  t |-> t + 1, row |-> row]
            ELSE find_div_new(add_div_constraints(b1, pos, p, a.i, t + 1),
                              a.i, row)

\* The existential of the builder that stands for new parameter p: an
\* existing one with the same definition, or a fresh one with its two rows.
find_div(bmap, pos, p, t) ==
    find_div_search(bmap, isl_basic_map_alloc_div(bmap, t),
        <<p.deno>> \o copy_constraint_from(p.vector, bmap.nparam, bmap.n_in,
                                           bmap.n_out, bmap.extra, pos),
        pos, p, t)

-----------------------------------------------------------------------------
(* Solution trees.  A node is [newparm, condition, next, list]: newparm a   *)
(* sequence of [rank, vector, deno]; condition a vector or <<>>; next       *)
(* <<next_then, next_else>> or <<>>; list a sequence of vectors or <<>>.    *)

\* A loop over q->newparm that ignores the ranks.
no_rank(decls, k, m) == m

\* The loop over q->newparm of quast_count: the largest rank from
\* declaration k on, or m.
RECURSIVE max_rank(_, _, _)
max_rank(decls, k, m) ==
    IF k > Len(decls) THEN m
    ELSE max_rank(decls, k + 1, Max(decls[k].rank, m))

RECURSIVE quast_count(_, _, _)

\* The counts after the "else" child of branch node q, which quast_count
\* visits first.
count_else(q, acc, depth) ==
    quast_count(q.next[2],
        [acc EXCEPT !.maxnew = max_rank(q.newparm, 1, @),
                    !.maxdepth = Max(depth + 1, @)],
        depth + 1)

\* acc = [maxnew, maxdepth, sol, nosol], the four counters of quast_count.
quast_count(q, acc, depth) ==
    IF q.condition # <<>>
    THEN quast_count(q.next[1], count_else(q, acc, depth), depth + 1)
    ELSE IF q.list # <<>>
    THEN [acc EXCEPT !.maxnew = max_rank(q.newparm, 1, @), !.sol = @ + 1]
    ELSE [acc EXCEPT !.maxnew = max_rank(q.newparm, 1, @), !.nosol = @ + 1]

\* A walk that takes the "then" child at every branch node.
RECURSIVE then_only(_, _)
then_only(q, path) ==
    IF path = <<>> THEN q ELSE then_only(q.next[1], Tail(path))

\* The node of q reached by following path (1: next_then, 2: next_else).
RECURSIVE NodeAt(_, _)
NodeAt(q, path) ==
    IF path = <<>> THEN q ELSE NodeAt(q.next[Head(path)], Tail(path))

-----------------------------------------------------------------------------
(* scan_quast_r, one activation at a time.                                  *)

\* What a find_div call saw and did: the row it built, the existentials that
\* were active, the index it returned and the counts before and after.
\* rows are the inequality rows the call appended, first the column of the
\* first existential in an inequality row.
FindRecord(bmap, p, f) ==
    [path |-> <<>>, rank |-> p.rank, row |-> f.row, divs |-> bmap.div,
     pos |-> f.pos,
     before |-> Counts(bmap), after |-> Counts(f.bmap),
     rows |-> SubSeq(f.bmap.ineq, n_ineq(bmap) + 1, n_ineq(f.bmap)),
     first |-> 1 + bmap.nparam + bmap.n_in + bmap.n_out + 1]

\* The loop over q->newparm, from declaration k on.
RECURSIVE scan_newparms(_, _, _, _, _, _)

\* A turn of the loop that records the index one entry too low.
scan_newparm_low(bmap, pos, decls, k, f, log) ==
    IF ~f.ok
    THEN [ok |-> FALSE, bmap |-> f.bmap, pos |-> pos, t |-> f.t, log |-> log]
    ELSE scan_newparms(f.bmap,
             [pos EXCEPT ![decls[k].rank - (bmap.nparam + bmap.n_in)]
                            = f.pos],
             decls, k + 1, f.t, Append(log, FindRecord(bmap, decls[k], f)))

\* One turn of the loop: f is what find_div returned for declaration k.
scan_newparm(bmap, pos, decls, k, f, log) ==
    IF ~f.ok
    THEN [ok |-> FALSE, bmap |-> f.bmap, pos |-> pos, t |-> f.t, log |-> log]
    ELSE scan_newparms(f.bmap,
             [pos EXCEPT ![decls[k].rank - (bmap.nparam + bmap.n_in) + 1]
                            = f.pos],
             decls, k + 1, f.t, Append(log, FindRecord(bmap, decls[k], f)))

scan_newparms(bmap, pos, decls, k, t, log) ==
    IF k > Len(decls)
    THEN [ok |-> TRUE, bmap |-> bmap, pos |-> pos, t |-> t, log |-> log]
    ELSE scan_newparm(bmap, pos, decls, k, find_div(bmap, pos, decls[k], t),
                      log)

\* The loop over q->list: one equality per output dimension j, while
\* j < n_out and the list lasts.
RECURSIVE add_equalities(_, _, _, _, _)
add_equalities(bmap, pos, list, j, t) ==
    IF ~(j < bmap.n_out /\ j < Len(list))
    THEN [ok |-> TRUE, bmap |-> bmap, t |-> t]
    ELSE LET e == add_equality(bmap, pos, j, list[j + 1], t)
         IN IF ~e.ok THEN [ok |-> FALSE, bmap |-> e.bmap, t |-> e.t]
            ELSE add_equalities(e.bmap, pos, list, j + 1, e.t)

\* The number of equality rows released after a leaf's region was added.
leaf_free_count(bmap, list) == bmap.n_out

\* The end of a leaf with a solution list: f is the release of the
\* equalities, m2 the union after the region was added.
scan_sol_free(f, m2, t) ==
    IF ~f.ok THEN [ok |-> FALSE, bmap |-> f.bmap, map |-> NullMap, t |-> t]
    ELSE [ok |-> TRUE, bmap |-> f.bmap, map |-> m2, t |-> t]

\* A leaf that puts the builder itself into the union: the region shows the
\* builder after the n equalities were released.
scan_sol_shared(e, m, n) ==
    IF ~e.ok THEN [ok |-> FALSE, bmap |-> e.bmap, map |-> NullMap, t |-> e.t]
    ELSE scan_sol_free(isl_basic_map_free_equality(e.bmap, n),
                       isl_map_add(m,
                           IF Fails(e.t) THEN NullBmap
                           ELSE isl_basic_map_free_equality(e.bmap, n).bmap),
                       e.t + 1)

\* A leaf with a solution list after its equalities e were added: a copy of
\* the builder joins the union, n equalities are released.
scan_sol_add(e, m, n) ==
    IF ~e.ok THEN [ok |-> FALSE, bmap |-> e.bmap, map |-> NullMap, t |-> e.t]
    ELSE scan_sol_free(isl_basic_map_free_equality(e.bmap, n),
                       isl_map_add(m, isl_basic_map_copy(e.bmap, e.t)),
                       e.t + 1)

\* A leaf with a solution list: pin the outputs, add a copy of the builder
\* to the union, release the equalities.
scan_sol(bmap, pos, list, m, t) ==
    scan_sol_add(add_equalities(bmap, pos, list, 0, t), m,
                 leaf_free_count(bmap, list))

\* A leaf without solution that contributes whenever *data->rest exists.
always_rest(m, d) == d.restReq

\* Whether a leaf without solution contributes its domain to *data->rest.
wants_rest(m, d) == Len(m.p) # 0 /\ d.restReq

\* A leaf without solution.
scan_nosol(d, m, t) ==
    LET bset == isl_basic_set_drop_vars(isl_basic_map_copy(d.bmap, t))
    IN IF ~wants_rest(m, d) THEN [ok |-> TRUE, rest |-> d.rest, t |-> t]
       ELSE IF bset.null THEN [ok |-> FALSE, rest |-> d.rest, t |-> t + 1]
       ELSE [ok |-> TRUE, rest |-> isl_map_add(d.rest, bset), t |-> t + 1]

\* An end of an activation that releases the existentials only.
scan_epilogue_divs(bmap, old_n_div) ==
    isl_basic_map_free_div(bmap, n_div(bmap) - old_n_div)

\* The end of an activation: release this node's division rows and its
\* existentials.
scan_epilogue(bmap, old_n_div) ==
    LET f == isl_basic_map_free_inequality(bmap, 2 * (n_div(bmap) - old_n_div))
        g == isl_basic_map_free_div(f.bmap, n_div(f.bmap) - old_n_div)
    IN IF ~f.ok THEN [ok |-> FALSE, bmap |-> f.bmap]
       ELSE [ok |-> g.ok, bmap |-> g.bmap]

Top == stack[Len(stack)]

\* An error exit that hands the union built so far back to the caller.
scan_error_keep(m) == m

\* The error exit of scan_quast_r: the union is released, NULL is returned.
scan_error(m) == NullMap

\* A branch that negates the row before its condition row.
negate_previous(bmap, pos) == isl_inequality_negate(bmap, pos - 1)

\* A branch whose condition row is left as it is for the "else" child.
keep_condition(bmap, pos) == [ok |-> pos < n_ineq(bmap), bmap |-> bmap]

\* The condition row at index pos, turned into the condition of the "else"
\* child.
negate_condition(bmap, pos) == isl_inequality_negate(bmap, pos)

\* The activation on top of the stack returns to its caller: by the error
\* exit when err holds, with the union m otherwise.
ScanReturn(m, d, t, kind, err) ==
    /\ stack' = SubSeq(stack, 1, Len(stack) - 1)
    /\ map' = IF err THEN scan_error(m) ELSE m
    /\ data' = d
    /\ tick' = t
    /\ returns' = Append(returns,
           [path |-> Top.path, kind |-> kind, ok |-> ~err /\ ~m.null,
            short |-> kind = "sol"
                      /\ Len(NodeAt(sol.q, Top.path).list) < d.bmap.n_out,
            before |-> Top.before, after |-> Counts(d.bmap),
            n |-> Len(m.p), nrest |-> Len(d.rest.p)])

\* A branch node after its condition row a was added: the "then" child is
\* called.
ScanBranch(d1, a, old_n_div) ==
    IF ~a.ok THEN ScanReturn(map, d1, a.t, "branch", TRUE)
    ELSE /\ stack' = SubSeq(stack, 1, Len(stack) - 1)
              \o << [Top EXCEPT !.phase = "then", !.old_n_div = old_n_div,
                                !.pos = a.i, !.cond = a.bmap.ineq[a.i + 1]],
                    [path |-> Append(Top.path, 1), phase |-> "enter",
                     old_n_div |-> 0, pos |-> 0, cond |-> <<>>,
                     before |-> Counts(a.bmap)] >>
         /\ data' = [d1 EXCEPT !.bmap = a.bmap]
         /\ tick' = a.t
         /\ UNCHANGED << map, returns >>

\* The return of a leaf: e is the release of the node's rows and
\* existentials, m the union, d the scan data.
ScanLeafEnd(d, e, m, t, kind) ==
    ScanReturn(m, [d EXCEPT !.bmap = e.bmap], t, kind, ~e.ok)

\* A leaf with a solution list, l being what scan_sol did.
ScanSol(d1, l, old_n_div) ==
    IF ~l.ok
    THEN ScanReturn(map, [d1 EXCEPT !.bmap = l.bmap], l.t, "sol", TRUE)
    ELSE ScanLeafEnd(d1, scan_epilogue(l.bmap, old_n_div), l.map, l.t, "sol")

\* A leaf without solution, r being what scan_nosol did.
ScanNoSol(d1, r, old_n_div) ==
    IF ~r.ok THEN ScanReturn(map, d1, r.t, "nosol", TRUE)
    ELSE ScanLeafEnd([d1 EXCEPT !.rest = r.rest],
                     scan_epilogue(d1.bmap, old_n_div), map, r.t, "nosol")

\* The kind of node q.
Kind(q) ==
    IF q.condition # <<>> THEN "branch"
    ELSE IF q.list # <<>> THEN "sol" ELSE "nosol"

\* An activation on node q after the loop over its declarations, np.
ScanNode(q, np, d1, old_n_div) ==
    /\ found' = found \o [k \in 1..Len(np.log) |->
                            [np.log[k] EXCEPT !.path = Top.path]]
    /\ IF ~np.ok THEN ScanReturn(map, d1, np.t, Kind(q), TRUE)
       ELSE IF q.condition # <<>>
       THEN ScanBranch(d1, add_inequality(np.bmap, np.pos, q.condition, np.t),
                       old_n_div)
       ELSE IF q.list # <<>>
       THEN ScanSol(d1, scan_sol(np.bmap, np.pos, q.list, map, np.t),
                    old_n_div)
       ELSE ScanNoSol(d1, scan_nosol(d1, map, np.t), old_n_div)

\* The scan data after the loop over the declarations.
after_newparms(d, np) == [d EXCEPT !.bmap = np.bmap, !.pos = np.pos]

\* An activation on node q: np is the loop over its declarations.
ScanDecls(q, np) ==
    ScanNode(q, np, after_newparms(data, np), n_div(data.bmap))

\* From the entry of scan_quast_r to its first recursive call or, at a
\* leaf, to its return.
ScanEnter ==
    /\ pc = "scan" /\ stack # <<>> /\ Top.phase = "enter"
    /\ steps' = steps + 1
    /\ IF map.null
       THEN /\ ScanReturn(map, data, tick, Kind(NodeAt(sol.q, Top.path)),
                          TRUE)
            /\ UNCHANGED found
       ELSE ScanDecls(NodeAt(sol.q, Top.path),
                scan_newparms(data.bmap, data.pos,
                    NodeAt(sol.q, Top.path).newparm, 1, tick, <<>>))
    /\ UNCHANGED << enc, heap, calls, prior >>
    /\ UNCHANGED << entry, bmapArg, domArg, emptyReq, solverOut, failAt, pc,
                    sol, counted, ledger, mats, ub, result >>

\* After the "then" child returned: negate the condition row and call
\* scan_quast_r for the "else" child.
ScanAfterThen ==
    /\ pc = "scan" /\ stack # <<>> /\ Top.phase = "then"
    /\ steps' = steps + 1
    /\ LET g == negate_condition(data.bmap, Top.pos)
       IN IF ~g.ok THEN ScanReturn(map, data, tick, "branch", TRUE)
          ELSE /\ stack' = SubSeq(stack, 1, Len(stack) - 1)
                    \o << [Top EXCEPT !.phase = "else"],
                          [path |-> Append(Top.path, 2), phase |-> "enter",
                           old_n_div |-> 0, pos |-> 0, cond |-> <<>>,
                           before |-> Counts(g.bmap)] >>
               /\ data' = [data EXCEPT !.bmap = g.bmap]
               /\ UNCHANGED << map, tick, returns >>
    /\ UNCHANGED << enc, heap, calls, prior >>
    /\ UNCHANGED << entry, bmapArg, domArg, emptyReq, solverOut, failAt, pc,
                    sol, counted, found, ledger, mats, ub, result >>

\* After the "else" child returned: release the condition row, then this
\* node's division rows and existentials, and return.
ScanAfterElse ==
    /\ pc = "scan" /\ stack # <<>> /\ Top.phase = "else"
    /\ steps' = steps + 1
    /\ LET f == isl_basic_map_free_inequality(data.bmap, 1)
           e == scan_epilogue(f.bmap, Top.old_n_div)
       IN IF ~f.ok THEN ScanReturn(map, data, tick, "branch", TRUE)
          ELSE ScanReturn(map, [data EXCEPT !.bmap = e.bmap], tick, "branch",
                          ~e.ok)
    /\ UNCHANGED << enc, heap, calls, prior >>
    /\ UNCHANGED << entry, bmapArg, domArg, emptyReq, solverOut, failAt, pc,
                    sol, counted, found, ledger, mats, ub, result >>

-----------------------------------------------------------------------------
(* Encoding of a basic map as a PipMatrix.                                  *)

\* The columns of copy_constraint_to with the parameters put before the
\* variables.
copy_params_first(tag, src, pip_param, pip_var, extra_front, extra_back) ==
    [c \in 1..(1 + extra_front + pip_var + pip_param + extra_back + 1) |->
        IF c = 1 THEN tag
        ELSE IF c = 1 + extra_front + pip_var + pip_param + extra_back + 1
        THEN src[1]
        ELSE IF c > 1 + extra_front /\ c <= 1 + extra_front + pip_var + pip_param
        THEN src[1 + (c - (1 + extra_front))]
        ELSE 0]

\* One matrix row: tag, extra_front zeros, the pip_var variables, the
\* pip_param parameters, extra_back zeros, the constant.
copy_constraint_to(tag, src, pip_param, pip_var, extra_front, extra_back) ==
    [c \in 1..(1 + extra_front + pip_var + pip_param + extra_back + 1) |->
        IF c = 1 THEN tag
        ELSE IF c = 1 + extra_front + pip_var + pip_param + extra_back + 1
        THEN src[1]
        ELSE IF c > 1 + extra_front + pip_var
                /\ c <= 1 + extra_front + pip_var + pip_param
        THEN src[1 + (c - (1 + extra_front + pip_var))]
        ELSE IF c > 1 + extra_front /\ c <= 1 + extra_front + pip_var
        THEN src[1 + pip_param + (c - (1 + extra_front))]
        ELSE 0]

NullMatrix == [null |-> TRUE, nrow |-> 0, ncol |-> 0, p |-> <<>>]

\* pip_matrix_alloc(nrow, ncol): a zero matrix, or NULL.
pip_matrix_alloc(nrow, ncol, t) ==
    IF Fails(t) THEN NullMatrix
    ELSE [null |-> FALSE, nrow |-> nrow, ncol |-> ncol,
          p |-> [r \in 1..nrow |-> Zeros(ncol)]]

\* The two loops of isl_basic_map_to_pip with the inequalities written
\* first.
pip_row_ineq_first(bmap, i, pip_param, pip_var, extra_front, extra_back) ==
    IF i < n_ineq(bmap)
    THEN copy_constraint_to(1, bmap.ineq[i + 1], pip_param, pip_var,
                            extra_front, extra_back)
    ELSE copy_constraint_to(0, bmap.eq[i - n_ineq(bmap) + 1], pip_param,
                            pip_var, extra_front, extra_back)

\* The two loops of isl_basic_map_to_pip: the matrix row at off + i, first
\* for the equalities (tag 0), then for the inequalities (tag 1).
pip_row(bmap, i, pip_param, pip_var, extra_front, extra_back) ==
    IF i < n_eq(bmap)
    THEN copy_constraint_to(0, bmap.eq[i + 1], pip_param, pip_var,
                            extra_front, extra_back)
    ELSE copy_constraint_to(1, bmap.ineq[i - n_eq(bmap) + 1], pip_param,
                            pip_var, extra_front, extra_back)

\* An encoder that gives the matrix no column for the back padding.
to_pip_no_back(bmap, pip_param, extra_front, extra_back, t) ==
    LET pip_var == bmap.nparam + bmap.n_in + bmap.n_out + n_div(bmap)
                   - pip_param
        nrow == extra_front + n_eq(bmap) + n_ineq(bmap)
        ncol == 1 + extra_front + pip_var + pip_param + 1
        M == pip_matrix_alloc(nrow, ncol, t)
    IN IF M.null THEN NullMatrix
       ELSE [M EXCEPT !.p = [r \in 1..nrow |->
                IF r > extra_front
                THEN pip_row(bmap, r - extra_front - 1, pip_param, pip_var,
                             extra_front, 0)
                ELSE M.p[r]]]

isl_basic_map_to_pip(bmap, pip_param, extra_front, extra_back, t) ==
    LET pip_var == bmap.nparam + bmap.n_in + bmap.n_out + n_div(bmap)
                   - pip_param
        nrow == extra_front + n_eq(bmap) + n_ineq(bmap)
        ncol == 1 + extra_front + pip_var + pip_param + extra_back + 1
        M == pip_matrix_alloc(nrow, ncol, t)
        off == extra_front
    IN IF M.null THEN NullMatrix
       ELSE [M EXCEPT !.p = [r \in 1..nrow |->
                IF r > off
                THEN pip_row(bmap, r - off - 1, pip_param, pip_var,
                             extra_front, extra_back)
                ELSE M.p[r]]]

\* A direct call of isl_basic_map_to_pip, which leaves its argument alone.
ToPip ==
    /\ pc = "call" /\ entry = "to_pip"
    /\ UNCHANGED steps
    /\ enc' = [enc EXCEPT !.M =
                  isl_basic_map_to_pip(bmapArg, enc.pip_param, enc.extra_front,
                                       enc.extra_back, tick)]
    /\ tick' = tick + 1
    /\ pc' = "done"
    /\ UNCHANGED << heap, calls, prior >>
    /\ UNCHANGED << entry, bmapArg, domArg, emptyReq, solverOut, failAt,
                    sol, data, map, stack, counted, returns, found, ledger,
                    mats, ub, result >>

-----------------------------------------------------------------------------
(* Objects whose creation and release are counted.                          *)

Objects == {"domain", "context", "options", "sol", "builder", "pos",
            "bmap", "dom"}

Made(l, o) == [l EXCEPT ![o].made = @ + 1]
Freed(l, o) == [l EXCEPT ![o].freed = @ + 1]
FreedIf(l, o, c) == IF c THEN Freed(l, o) ELSE l

\* An error exit that releases the matrices and bmap, and leaves dom.
extremum_error_keep_dom(l, domain, context) ==
    FreedIf(FreedIf(FreedIf(l, "domain", ~domain.null),
                    "context", ~context.null),
            "bmap", ~bmapArg.null)

\* The error exit of extremum_on: the matrices that exist, bmap and dom.
extremum_error(l, domain, context) ==
    FreedIf(FreedIf(FreedIf(FreedIf(l, "domain", ~domain.null),
                            "context", ~context.null),
                    "bmap", ~bmapArg.null),
            "dom", ~domArg.null)

\* The value of *empty before the call assigned it.
Unset == [null |-> TRUE, size |-> -1, p |-> <<>>]

NoData == [bmap |-> NullBmap, pos |-> <<>>, rest |-> Unset, restReq |-> FALSE]

Uninit == -1

\* extremum_on up to pip_solve: argument checks, the two matrices, the
\* options and the call of the solver.
ExtremumBegin ==
    /\ pc = "call" /\ entry \in {"lexmax", "lexmin"}
    /\ UNCHANGED steps
    /\ LET bad == bmapArg.null \/ domArg.null
                  \/ bmapArg.nparam # domArg.nparam
                  \/ bmapArg.n_in # domArg.n_in
           domain == isl_basic_map_to_pip(bmapArg,
                         bmapArg.nparam + bmapArg.n_in, 0, n_div(domArg), tick)
           context == isl_basic_map_to_pip(domArg, 0, 0, 0, tick + 1)
           options == [Simplify |-> 1,
                       Maximize |-> IF entry = "lexmax" THEN 1 ELSE 0,
                       Urs_unknowns |-> -1, Urs_parms |-> -1]
       IN IF bad
          THEN /\ ledger' = extremum_error(ledger, NullMatrix, NullMatrix)
               /\ pc' = "done"
               /\ result' = [map |-> NullMap, empty |-> data.rest]
               /\ UNCHANGED << tick, mats, sol >>
          ELSE IF domain.null
          THEN /\ ledger' = extremum_error(ledger, NullMatrix, NullMatrix)
               /\ pc' = "done" /\ tick' = tick + 1
               /\ result' = [map |-> NullMap, empty |-> data.rest]
               /\ UNCHANGED << mats, sol >>
          ELSE IF context.null
          THEN /\ ledger' = extremum_error(Made(ledger, "domain"), domain,
                                           NullMatrix)
               /\ pc' = "done" /\ tick' = tick + 2
               /\ result' = [map |-> NullMap, empty |-> data.rest]
               /\ UNCHANGED << mats, sol >>
          ELSE /\ ledger' = LET l == Made(Made(Made(ledger, "domain"),
                                               "context"), "options")
                            IN IF solverOut.null THEN l ELSE Made(l, "sol")
               /\ mats' = [domain |-> domain, context |-> context,
                           options |-> options]
               /\ sol' = solverOut
               /\ pc' = "solved" /\ tick' = tick + 2
               /\ UNCHANGED result
    /\ UNCHANGED << enc, heap, calls, prior >>
    /\ UNCHANGED << entry, bmapArg, domArg, emptyReq, solverOut, failAt,
                    data, map, stack, counted, returns, found, ub >>

\* extremum_on when pip_solve returned NULL: the empty map.
ExtremumNoSol ==
    /\ pc = "solved" /\ entry \in {"lexmax", "lexmin"} /\ sol.null
    /\ UNCHANGED steps
    /\ map' = IF Fails(tick) THEN NullMap ELSE isl_map_alloc(0)
    /\ tick' = tick + 1
    /\ data' = IF emptyReq THEN [data EXCEPT !.rest = NullMap] ELSE data
    /\ pc' = "decoded"
    /\ UNCHANGED << enc, heap, calls, prior >>
    /\ UNCHANGED << entry, bmapArg, domArg, emptyReq, solverOut, failAt, sol,
                    stack, counted, returns, found, ledger, mats, ub, result >>

\* The outcomes of reading the fields of a NULL PipQuast: a trap, or a node
\* without declarations and condition, with or without a list.
NullReads ==
    { [trap |-> tr, q |-> [newparm |-> <<>>, condition |-> <<>>,
                           next |-> <<>>, list |-> l]] :
        tr \in BOOLEAN, l \in { <<>>, << <<0>> >> } }

-----------------------------------------------------------------------------
(* isl_map_from_quast.                                                      *)

\* isl_basic_map_extend of the context seen as a map without outputs: n_out
\* output columns are inserted, extra more existentials and n_eq, n_ineq
\* more rows can be held.
isl_basic_map_extend(base, n_out, extra, neq, nineq, t) ==
    LET first == 1 + base.nparam + base.n_in
        Widen(row, f) ==
            [k \in 1..(Len(row) + n_out + extra) |->
                IF k <= f THEN row[k]
                ELSE IF k <= f + n_out THEN 0
                ELSE IF k <= Len(row) + n_out THEN row[k - n_out]
                ELSE 0]
    IN IF Fails(t) \/ base.null THEN NullBmap
       ELSE [null |-> FALSE, nparam |-> base.nparam, n_in |-> base.n_in,
             n_out |-> n_out, extra |-> base.extra + extra,
             c_eq |-> n_eq(base) + neq, c_ineq |-> n_ineq(base) + nineq,
             eq |-> [k \in 1..n_eq(base) |-> Widen(base.eq[k], first)],
             ineq |-> [k \in 1..n_ineq(base) |-> Widen(base.ineq[k], first)],
             div |-> [k \in 1..n_div(base) |-> Widen(base.div[k], first + 1)]]

\* isl_basic_set_alloc(ctx, nparam, dim, 0, 0, 0): the universe set.
isl_basic_set_alloc(nparam, dim, t) ==
    IF Fails(t) THEN NullBmap
    ELSE [null |-> FALSE, nparam |-> nparam, n_in |-> dim, n_out |-> 0,
          extra |-> 0, c_eq |-> 0, c_ineq |-> 0,
          eq |-> <<>>, ineq |-> <<>>, div |-> <<>>]

\* Counts that leave the branch nodes out.
count_flat(cnt, pip_param) ==
    [nexist |-> cnt.maxnew - (pip_param - 1), max_depth |-> 0,
     n_sol |-> cnt.sol, n_nosol |-> cnt.nosol]

\* The counts isl_map_from_quast takes from quast_count.
count_result(cnt, pip_param) ==
    [nexist |-> cnt.maxnew - (pip_param - 1), max_depth |-> cnt.maxdepth,
     n_sol |-> cnt.sol, n_nosol |-> cnt.nosol]

\* The error exit of isl_map_from_quast: pos, the builder, map and *rest
\* are released; u holds the undefined behaviour the exit ran into.
FromQuastError(t, l, u, restReq) ==
    /\ data' = [bmap |-> NullBmap, pos |-> <<>>, restReq |-> restReq,
                rest |-> IF restReq THEN NullMap ELSE data.rest]
    /\ map' = NullMap
    /\ stack' = <<>>
    /\ tick' = t
    /\ ledger' = l
    /\ ub' = ub \cup u
    /\ \/ pc' = "decoded"
       \/ u # {} /\ pc' = "crashed"

\* The initial pos array: the existentials of the context keep their index,
\* the other entries hold what the memory held.
initial_pos(bmap) ==
    [i \in 1..bmap.extra |->
        IF i - 1 < n_div(bmap) THEN i - 1
        ELSE IF i <= Len(heap) THEN heap[i] ELSE Uninit]

\* isl_map_from_quast once the builder bmap exists (or failed to): the pos
\* array, then the call of scan_quast_r.
FromQuastScan(bmap, rest, m, t4, made, restReq) ==
    IF bmap.null THEN FromQuastError(t4, Freed(made, "builder"), {}, restReq)
    ELSE IF bmap.extra > 0 /\ Fails(t4)
    THEN FromQuastError(t4 + 1, Freed(made, "builder"), {}, restReq)
    ELSE /\ data' = [bmap |-> bmap, rest |-> rest, restReq |-> restReq,
                     pos |-> IF bmap.extra > 0 THEN initial_pos(bmap)
                             ELSE <<>>]
         /\ map' = m
         /\ stack' = << [path |-> <<>>, phase |-> "enter", old_n_div |-> 0,
                         pos |-> 0, cond |-> <<>>, before |-> Counts(bmap)] >>
         /\ tick' = IF bmap.extra > 0 THEN t4 + 1 ELSE t4
         /\ ledger' = IF bmap.extra > 0 THEN Made(made, "pos") ELSE made
         /\ ub' = IF sol.null THEN ub \cup {"read of NULL quast"} ELSE ub
         /\ pc' = "scan"

\* isl_map_from_quast once the tree was counted: the two unions, then the
\* builder.
FromQuastAlloc(context, c, keep, t1, made, restReq) ==
    LET rest == IF ~restReq THEN data.rest
                ELSE IF Fails(t1) THEN NullMap ELSE isl_map_alloc(c.n_nosol)
        t2 == IF restReq THEN t1 + 1 ELSE t1
        m == IF Fails(t2) THEN NullMap ELSE isl_map_alloc(c.n_sol)
    IN /\ counted' = c
       /\ IF restReq /\ rest.null
          THEN FromQuastError(t2, made, {"free of uninitialized map"}, restReq)
          ELSE IF m.null THEN FromQuastError(t2 + 1, made, {}, restReq)
          ELSE FromQuastScan(
                   isl_basic_map_extend(context, keep, c.nexist, keep,
                       c.max_depth + 2 * c.nexist, t2 + 1),
                   rest, m, t2 + 2, made, restReq)

\* isl_map_from_quast on the tree read as rd, with the context handed in.
FromQuastCount(rd, context, keep, restReq) ==
    IF context.null
    THEN /\ FromQuastError(tick + 1, ledger,
                {"free of uninitialized map"}
                \cup IF restReq /\ data.rest = Unset
                     THEN {"free of unassigned *rest"} ELSE {}, restReq)
         /\ UNCHANGED << sol, counted >>
    ELSE IF rd.trap
    THEN /\ ub' = ub \cup {"read of NULL quast"}
         /\ pc' = "crashed"
         /\ tick' = tick + 1
         /\ ledger' = Made(ledger, "builder")
         /\ UNCHANGED << sol, data, map, stack, counted >>
    ELSE /\ sol' = [sol EXCEPT !.q = rd.q]
         /\ FromQuastAlloc(context,
                count_result(quast_count(rd.q,
                                 [maxnew |-> context.nparam + context.n_in - 1,
                                  maxdepth |-> 0, sol |-> 0, nosol |-> 0], 0),
                             context.nparam + context.n_in),
                keep, tick + 1, Made(ledger, "builder"), restReq)

\* The call of isl_map_from_quast up to its call of scan_quast_r: the
\* context handed in, the counts, the two unions, the builder and pos.
FromQuastBegin ==
    /\ pc = "solved" /\ (entry = "compute_divs" \/ ~sol.null)
    /\ UNCHANGED steps
    /\ \E rd \in (IF sol.null THEN NullReads
                   ELSE {[trap |-> FALSE, q |-> sol.q]}) :
          FromQuastCount(rd,
              IF entry = "compute_divs"
              THEN isl_basic_set_alloc(bmapArg.nparam,
                                       bmapArg.n_in + bmapArg.n_out, tick)
              ELSE isl_basic_map_copy(domArg, tick),
              IF entry = "compute_divs" THEN 0 ELSE bmapArg.n_out,
              entry # "compute_divs" /\ emptyReq)
    /\ UNCHANGED << enc, heap, calls, prior >>
    /\ UNCHANGED << entry, bmapArg, domArg, emptyReq, solverOut, failAt,
                    returns, found, mats, result >>

\* isl_map_from_quast after scan_quast_r returned: finalize both unions and
\* release the builder and pos, or take the error exit.
FromQuastEnd ==
    /\ pc = "scan" /\ stack = <<>>
    /\ UNCHANGED steps
    /\ LET bad == map.null \/ (data.restReq /\ data.rest.null)
           l == FreedIf(Freed(ledger, "builder"), "pos", data.pos # <<>>)
       IN /\ map' = IF bad THEN NullMap ELSE map
          /\ data' = [data EXCEPT !.rest = IF bad /\ data.restReq
                                           THEN NullMap ELSE @]
          /\ ledger' = l
    /\ heap' = IF data.pos # <<>> THEN data.pos ELSE heap
    /\ pc' = "decoded"
    /\ UNCHANGED << enc, calls, prior >>
    /\ UNCHANGED << entry, bmapArg, domArg, emptyReq, solverOut, failAt, tick,
                    sol, stack, counted, returns, found, mats, ub, result >>

-----------------------------------------------------------------------------
(* The ends of the public entry points.                                     *)

\* An extremum_on that never hands the whole domain back.
never_whole(m, req) == FALSE

\* The test of extremum_on for handing the whole domain back as *empty.
empty_is_whole(m, req) == Len(m.p) = 0 /\ req

\* extremum_on after the decode: the result for the caller and the release
\* of what the call created, or the error exit.
ExtremumEnd ==
    /\ pc = "decoded" /\ entry \in {"lexmax", "lexmin"}
    /\ UNCHANGED steps
    /\ LET whole == empty_is_whole(map, emptyReq)
           fromDom == IF Fails(tick) THEN NullMap
                      ELSE [null |-> FALSE, size |-> 1, p |-> << domArg >>]
           l1 == Freed(Freed(Freed(Freed(ledger, "bmap"), "options"),
                             "domain"), "context")
           l2 == FreedIf(l1, "sol", ~sol.null)
       IN IF map.null
          THEN /\ ledger' = extremum_error(ledger, mats.domain, mats.context)
               /\ result' = [map |-> NullMap, empty |-> data.rest]
               /\ UNCHANGED << data, tick >>
          ELSE IF whole
          THEN /\ data' = [data EXCEPT !.rest = fromDom]
               /\ tick' = tick + 1
               /\ ledger' = [l2 EXCEPT !["dom"].moved = @ + 1]
               /\ result' = [map |-> map, empty |-> fromDom]
          ELSE /\ ledger' = Freed(l2, "dom")
               /\ result' = [map |-> map, empty |-> data.rest]
               /\ UNCHANGED << data, tick >>
    /\ pc' = "done"
    /\ UNCHANGED << enc, heap, calls, prior >>
    /\ UNCHANGED << entry, bmapArg, domArg, emptyReq, solverOut, failAt, sol,
                    map, stack, counted, returns, found, mats, ub >>

\* isl_pip_basic_map_compute_divs up to pip_solve.
ComputeDivsBegin ==
    /\ pc = "call" /\ entry = "compute_divs"
    /\ UNCHANGED steps
    /\ LET pip_param == bmapArg.nparam + bmapArg.n_in + bmapArg.n_out
           domain == isl_basic_map_to_pip(bmapArg, pip_param, 0, 0, tick)
           context == pip_matrix_alloc(0, pip_param + 2, tick + 1)
           options == [Simplify |-> 1, Maximize |-> 0,
                       Urs_unknowns |-> -1, Urs_parms |-> -1]
           \* the error exit releases the local dom, which was never assigned
           \* and only then bmap
           Fail(t, l) ==
               /\ ub' = ub \cup {"free of uninitialized dom"}
               /\ tick' = t
               /\ result' = [map |-> NullMap, empty |-> data.rest]
               /\ \/ pc' = "done" /\ ledger' = FreedIf(l, "bmap", ~bmapArg.null)
                  \/ pc' = "crashed" /\ ledger' = l
               /\ UNCHANGED << mats, sol >>
       IN IF bmapArg.null THEN Fail(tick, ledger)
          ELSE IF domain.null THEN Fail(tick + 1, ledger)
          ELSE IF context.null
          THEN Fail(tick + 2, Freed(Made(ledger, "domain"), "domain"))
          ELSE /\ ledger' = LET l == Made(Made(Made(ledger, "domain"),
                                               "context"), "options")
                            IN IF solverOut.null THEN l ELSE Made(l, "sol")
               /\ mats' = [domain |-> domain, context |-> context,
                           options |-> options]
               /\ sol' = solverOut
               /\ pc' = "solved" /\ tick' = tick + 2
               /\ UNCHANGED << result, ub >>
    /\ UNCHANGED << enc, heap, calls, prior >>
    /\ UNCHANGED << entry, bmapArg, domArg, emptyReq, solverOut, failAt,
                    data, map, stack, counted, returns, found >>

\* isl_map_domain followed by isl_map_from_set(set, n_in, n_out): every
\* region read again as a relation between n_in inputs and n_out outputs.
isl_map_from_set(m, n_in, n_out) ==
    IF m.null THEN NullMap
    ELSE [m EXCEPT !.p = [k \in 1..Len(@) |->
                             [@[k] EXCEPT !.n_in = n_in, !.n_out = n_out]]]

\* isl_pip_basic_map_compute_divs after isl_map_from_quast returned.
ComputeDivsEnd ==
    /\ pc = "decoded" /\ entry = "compute_divs"
    /\ UNCHANGED steps
    /\ ledger' = FreedIf(Freed(Freed(Freed(Freed(ledger, "options"),
                                           "domain"), "context"), "bmap"),
                         "sol", ~sol.null)
    /\ result' = [map |-> isl_map_from_set(map, bmapArg.n_in, bmapArg.n_out),
                  empty |-> data.rest]
    /\ pc' = "done"
    /\ UNCHANGED << enc, heap, calls, prior >>
    /\ UNCHANGED << entry, bmapArg, domArg, emptyReq, solverOut, failAt, tick,
                    sol, data, map, stack, counted, returns, found, mats, ub >>

-----------------------------------------------------------------------------
(* Inputs: relations, domains and the solution trees of the solver.         *)

\* {[i] : 0 <= i <= PointMax}
DomBox ==
    [null |-> FALSE, nparam |-> 0, n_in |-> 1, n_out |-> 0, extra |-> 0,
     c_eq |-> 0, c_ineq |-> 2, eq |-> <<>>,
     ineq |-> << <<0, 1>>, <<PointMax, -1>> >>, div |-> <<>>]

\* {[i] -> [j] : 0 <= j <= i <= PointMax}
RelExample ==
    [null |-> FALSE, nparam |-> 0, n_in |-> 1, n_out |-> 1, extra |-> 0,
     c_eq |-> 0, c_ineq |-> 3, eq |-> <<>>,
     ineq |-> << <<0, 0, 1>>, <<0, 1, -1>>, <<PointMax, -1, 0>> >>,
     div |-> <<>>]

Leaf(np, list) ==
    [newparm |-> np, condition |-> <<>>, next |-> <<>>, list |-> list]
Branch(np, cond, th, el) ==
    [newparm |-> np, condition |-> cond, next |-> <<th, el>>, list |-> <<>>]

\* A vector over i and k new parameters: ci*i + cp*(the last new parameter)
\* + c0.
Vec(ci, cp, k, c0) ==
    [c \in 1..(k + 2) |-> IF c = 1 THEN ci
                          ELSE IF c = k + 2 THEN c0
                          ELSE IF c = k + 1 THEN cp ELSE 0]

\* New parameter floor(i/2), declared when k new parameters exist.
Half(k) == [rank |-> 1 + k, vector |-> Vec(1, 0, k, 0), deno |-> 2]
\* New parameter floor((i + the last new parameter)/2), for k >= 1.
Nested(k) == [rank |-> 1 + k, vector |-> Vec(1, 1, k, 0), deno |-> 2]

\* The leaves below k new parameters: no solution; j = i; j = the last new
\* parameter (j = 0 without one); a declaration of floor(i/2) and j = it.
Leaves(k) ==
    { Leaf(<<>>, <<>>),
      Leaf(<<>>, << Vec(1, 0, k, 0) >>),
      Leaf(<<>>, << Vec(0, 1, k, 0) >>),
      Leaf(<< Half(k) >>, << Vec(0, 1, k + 1, 0) >>) }

\* The declarations and condition of a branch node below k new parameters,
\* with the number of new parameters its children see.
Decorations(k) ==
    { [np |-> <<>>, k |-> k,
       cond |-> IF k = 0 THEN Vec(1, 0, 0, -1) ELSE Vec(1, -2, k, -1)],
      [np |-> << Half(k) >>, k |-> k + 1, cond |-> Vec(1, -2, k + 1, -1)],
      IF k = 0
      THEN [np |-> << Half(0), Nested(1) >>, k |-> 2,
            cond |-> Vec(1, -1, 2, -1)]
      ELSE [np |-> << Nested(k) >>, k |-> k + 1,
            cond |-> Vec(1, -1, k + 1, -1)] }

\* The trees with at most d nested branch nodes below k new parameters in
\* which every branch node has a leaf as one of its children.
RECURSIVE Quasts(_, _)
Quasts(d, k) ==
    IF d = 0 THEN Leaves(k)
    ELSE Leaves(k) \cup
         UNION { { Branch(dc.np, dc.cond, th, el) :
                     th \in Quasts(d - 1, dc.k), el \in Leaves(dc.k) }
                 \cup { Branch(dc.np, dc.cond, th, el) :
                     th \in Leaves(dc.k), el \in Quasts(d - 1, dc.k) } :
                 dc \in Decorations(k) }

\* {[i] -> [j] : exists e : 2e <= i <= 2e + 1, 0 <= 2j <= i + e}, whose
\* greatest j is floor((i + floor(i/2)) / 2).
RelNested ==
    [null |-> FALSE, nparam |-> 0, n_in |-> 1, n_out |-> 1, extra |-> 1,
     c_eq |-> 0, c_ineq |-> 4, eq |-> <<>>,
     ineq |-> << <<0, 1, 0, -2>>, <<1, -1, 0, 2>>, <<0, 1, -2, 1>>,
                 <<0, 0, 1, 0>> >>,
     div |-> << <<2, 0, 1, 0, 0>> >>]

\* The solver's tree for the greatest j of RelNested: p1 = floor(i/2),
\* p2 = floor((i + p1)/2), j = p2, e = p1.
QuastNested ==
    Leaf(<< Half(0), Nested(1) >>, << <<0, 0, 1, 0>>, <<0, 1, 0, 0>> >>)

\* {[i] -> [j] : 0 <= -1}: no point at all.
RelEmpty ==
    [null |-> FALSE, nparam |-> 0, n_in |-> 1, n_out |-> 1, extra |-> 0,
     c_eq |-> 0, c_ineq |-> 1, eq |-> <<>>, ineq |-> << <<-1, 0, 0>> >>,
     div |-> <<>>]

\* {[i] : exists e : i = 2e, 0 <= i <= PointMax}, with e = floor(i/2).
DomEven ==
    [null |-> FALSE, nparam |-> 0, n_in |-> 1, n_out |-> 0, extra |-> 1,
     c_eq |-> 1, c_ineq |-> 2, eq |-> << <<0, 1, -2>> >>,
     ineq |-> << <<0, 1, 0>>, <<PointMax, -1, 0>> >>,
     div |-> << <<2, 0, 1, 0>> >>]

\* {[i] : 0 <= i <= PointMax} written with two existentials of its own,
\* e0 = floor(i/2) and e1 = floor((i + e0)/2), and their bound rows.
DomTwoDivs ==
    [null |-> FALSE, nparam |-> 0, n_in |-> 1, n_out |-> 0, extra |-> 2,
     c_eq |-> 0, c_ineq |-> 6, eq |-> <<>>,
     ineq |-> << <<0, 1, 0, 0>>, <<PointMax, -1, 0, 0>>,
                 <<0, 1, -2, 0>>, <<1, -1, 2, 0>>,
                 <<0, 1, 1, -2>>, <<1, -1, -1, 2>> >>,
     div |-> << <<2, 0, 1, 0, 0>>, <<2, 0, 1, 1, 0>> >>]

\* A tree over the parameters (i, e0, e1) of DomTwoDivs that declares
\* floor((i + e0)/2), the definition of e1, and answers j = i.
QuastTwoDivs ==
    Leaf(<< [rank |-> 3, vector |-> <<1, 1, 0, 0>>, deno |-> 2] >>,
         << <<1, 0, 0, 0, 0>> >>)

\* {[i] -> [j1, j2] : 0 <= j2 <= j1 <= i <= PointMax}
RelTwoOut ==
    [null |-> FALSE, nparam |-> 0, n_in |-> 1, n_out |-> 2, extra |-> 0,
     c_eq |-> 0, c_ineq |-> 4, eq |-> <<>>,
     ineq |-> << <<0, 0, 0, 1>>, <<0, 0, 1, -1>>, <<0, 1, -1, 0>>,
                 <<PointMax, -1, 0, 0>> >>,
     div |-> <<>>]

\* Trees over the parameters (i, e) of DomEven for two outputs: the solver's
\* tree for the greatest (j1, j2); one whose first leaf has a list of one
\* vector only; one that declares floor(i/2) again.
QuastsTwoOut ==
    { Leaf(<<>>, << <<1, 0, 0>>, <<1, 0, 0>> >>),
      Branch(<<>>, <<1, 0, -1>>,
             Leaf(<<>>, << <<1, 0, 0>> >>),
             Leaf(<<>>, << <<1, 0, 0>>, <<1, 0, 0>> >>)),
      Branch(<<>>, <<1, 0, -1>>,
             Leaf(<<>>, << <<1, 0, 0>>, <<1, 0, 0>> >>),
             Leaf(<<>>, << <<1, 0, 0>> >>)),
      Branch(<< [rank |-> 2, vector |-> <<1, 0, 0>>, deno |-> 2] >>,
             <<1, 0, -2, 0>>,
             Leaf(<<>>, << <<0, 0, 2, 0>>, <<0, 1, 1, 0>> >>),
             Leaf(<<>>, <<>>)) }

\* {[n] -> {[i] -> [j] : 0 <= j <= i <= n <= PointMax}}, one parameter n.
RelParam ==
    [null |-> FALSE, nparam |-> 1, n_in |-> 1, n_out |-> 1, extra |-> 0,
     c_eq |-> 0, c_ineq |-> 4, eq |-> <<>>,
     ineq |-> << <<0, 0, 0, 1>>, <<0, 0, 1, -1>>, <<0, 1, -1, 0>>,
                 <<PointMax, -1, 0, 0>> >>,
     div |-> <<>>]

\* [n] -> {[i] : 0 <= i <= n <= PointMax}
DomParam ==
    [null |-> FALSE, nparam |-> 1, n_in |-> 1, n_out |-> 0, extra |-> 0,
     c_eq |-> 0, c_ineq |-> 3, eq |-> <<>>,
     ineq |-> << <<0, 0, 1>>, <<0, 1, -1>>, <<PointMax, -1, 0>> >>,
     div |-> <<>>]

\* Trees over the parameters (n, i): j = i; and a split on n - i >= 1 with
\* the new parameter floor((n + i)/2) declared in a leaf.
QuastsParam ==
    { Leaf(<<>>, << <<0, 1, 0>> >>),
      Branch(<<>>, <<1, -1, -1>>,
             Leaf(<< [rank |-> 2, vector |-> <<1, 1, 0>>, deno |-> 2] >>,
                  << <<0, 1, 0, 0>> >>),
             Leaf(<<>>, << <<0, 1, 0>> >>)) }

\* Trees with two and three nested branch nodes, with leaves without
\* solution before and after leaves with one, and floor(i/2) declared at
\* several depths; a leaf declaring floor(i/2) and then
\* floor((-i + floor(i/2))/3); two leaves below one node that declare
\* different new parameters of the same rank; a leaf whose solution adds
\* two new parameters that are both floor(i/2).
QuastsDeep ==
    { Branch(<<>>, Vec(1, 0, 0, -1),
             Branch(<< Half(0) >>, Vec(1, -2, 1, -1),
                    Leaf(<<>>, <<>>),
                    Leaf(<< Half(1) >>, << Vec(0, 1, 2, 0) >>)),
             Leaf(<<>>, << Vec(0, 0, 0, 0) >>)),
      Branch(<< Half(0) >>, Vec(1, -2, 1, -1),
             Branch(<< Half(1) >>, Vec(1, 0, 2, -3),
                    Leaf(<<>>, << Vec(1, 0, 2, 0) >>),
                    Branch(<< Nested(2) >>, Vec(0, 1, 3, -1),
                           Leaf(<<>>, << Vec(0, 1, 3, 0) >>),
                           Leaf(<<>>, <<>>))),
             Branch(<<>>, Vec(1, 0, 1, -2),
                    Leaf(<<>>, <<>>),
                    Leaf(<<>>, << Vec(0, 1, 1, 0) >>))),
      Branch(<<>>, Vec(1, 0, 0, -2),
             Branch(<<>>, Vec(1, 0, 0, -3),
                    Leaf(<<>>, <<>>),
                    Leaf(<<>>, <<>>)),
             Leaf(<<>>, <<>>)),
      Branch(<<>>, Vec(1, 0, 0, -1),
             Branch(<<>>, Vec(1, 0, 0, -3),
                    Leaf(<<>>, <<>>),
                    Leaf(<<>>, << Vec(0, 0, 0, 0) >>)),
             Leaf(<<>>, <<>>)),
      Leaf(<< Half(0), [rank |-> 2, vector |-> Vec(-1, 1, 1, 0), deno |-> 3] >>,
           << Vec(0, 1, 2, 0) >>),
      Branch(<< Half(0) >>, Vec(1, -2, 1, -1),
             Leaf(<< Half(1) >>, << Vec(0, 1, 2, 0) >>),
             Leaf(<< [rank |-> 2, vector |-> Vec(-1, 1, 1, 0), deno |-> 3] >>,
                  << Vec(0, 1, 2, 0) >>)),
      Leaf(<< Half(0), Half(1) >>, << <<0, 1, 1, 0>> >>) }

\* {[i] -> [j] : exists e : i + j = 2e}, for compute_divs, and the solver's
\* tree over the parameters (i, j): p = floor((i + j)/2); if 2p >= i + j
\* then e = p, else no solution.
RelParity ==
    [null |-> FALSE, nparam |-> 0, n_in |-> 1, n_out |-> 1, extra |-> 1,
     c_eq |-> 1, c_ineq |-> 0, eq |-> << <<0, 1, 1, -2>> >>, ineq |-> <<>>,
     div |-> << <<0, 0, 0, 0, 0>> >>]

QuastParity ==
    Branch(<< [rank |-> 2, vector |-> <<1, 1, 0>>, deno |-> 2] >>,
           <<-1, -1, 2, 0>>,
           Leaf(<<>>, << <<0, 0, 1, 0>> >>),
           Leaf(<<>>, <<>>))

\* The trees used when an operation is made to fail.
QuastsFail ==
    { Leaf(<< Half(0) >>, << Vec(0, 1, 1, 0) >>),
      Branch(<< Half(0) >>, Vec(1, -2, 1, -1),
             Leaf(<<>>, << Vec(1, 0, 1, 0) >>),
             Leaf(<<>>, <<>>)),
      Branch(<<>>, Vec(1, 0, 0, -1),
             Branch(<<>>, Vec(1, 0, 0, -3),
                    Leaf(<<>>, << Vec(1, 0, 0, 0) >>),
                    Leaf(<<>>, <<>>)),
             Branch(<<>>, Vec(1, 0, 0, -2),
                    Leaf(<<>>, <<>>),
                    Leaf(<<>>, << Vec(0, 0, 0, 0) >>))) }

Tree(q) == [null |-> FALSE, q |-> q]
NoTree == [null |-> TRUE, q |-> Leaf(<<>>, <<>>)]

\* No direct call of isl_basic_map_to_pip.
NoEnc ==
    [pip_param |-> 0, extra_front |-> 0, extra_back |-> 0, M |-> NullMatrix]

Scenario(e, b, d, r, s, f) ==
    [entry |-> e, bmap |-> b, dom |-> d, emptyReq |-> r, solverOut |-> s,
     failAt |-> f, enc |-> NoEnc]

\* A direct call isl_basic_map_to_pip(b, pp, ef, eb).
EncScenario(b, pp, ef, eb, f) ==
    [entry |-> "to_pip", bmap |-> b, dom |-> NullBmap, emptyReq |-> FALSE,
     solverOut |-> NoTree, failAt |-> f,
     enc |-> [pip_param |-> pp, extra_front |-> ef, extra_back |-> eb,
              M |-> NullMatrix]]

\* Every generated tree as the solver's answer, no operation failing: for
\* lexmax with the infeasible union requested, for lexmin without.
GeneratedScenarios ==
    { Scenario(c.e, RelExample, DomBox, c.r, Tree(q), 0) :
        c \in {[e |-> "lexmax", r |-> TRUE], [e |-> "lexmin", r |-> FALSE]},
        q \in Quasts(MaxDepth, 0) }

\* Hand-built inputs: nested divisions, a domain with an equality and an
\* existential, two outputs, a parameter, deep trees, a NULL tree.
CatalogueScenarios ==
    { Scenario("lexmax", RelNested, DomBox, r, Tree(QuastNested), 0) :
        r \in BOOLEAN }
    \cup { Scenario("lexmax", RelExample, DomTwoDivs, r, Tree(QuastTwoDivs), 0) :
             r \in BOOLEAN }
    \cup { Scenario("lexmax", RelTwoOut, DomEven, r, Tree(q), 0) :
             r \in BOOLEAN, q \in QuastsTwoOut }
    \cup { Scenario(e, RelParam, DomParam, r, Tree(q), 0) :
             e \in {"lexmax", "lexmin"}, r \in BOOLEAN, q \in QuastsParam }
    \cup { Scenario("lexmin", RelExample, DomBox, r, Tree(q), 0) :
             r \in BOOLEAN, q \in QuastsDeep }
    \cup { Scenario(e, RelEmpty, DomBox, r, NoTree, 0) :
             e \in {"lexmax", "lexmin"}, r \in BOOLEAN }
    \cup { Scenario("compute_divs", RelParity, NullBmap, FALSE, s, 0) :
             s \in {Tree(QuastParity), NoTree} }
    \cup { Scenario("compute_divs", RelEmpty, NullBmap, FALSE, NoTree, 0) }

\* One operation fails.
FailureScenarios ==
    { Scenario("lexmax", RelExample, DomBox, r, Tree(q), f) :
        r \in BOOLEAN, q \in QuastsFail, f \in 1..MaxFail }
    \cup { Scenario("lexmax", RelEmpty, DomBox, TRUE, NoTree, f) :
             f \in 1..MaxFail }
    \cup { Scenario("compute_divs", RelParity, NullBmap, FALSE,
                    Tree(QuastParity), f) : f \in 1..MaxFail }

\* Calls that the argument checks refuse.
RefusedScenarios ==
    ({ Scenario("lexmax", b, d, TRUE, NoTree, 0) :
         b \in {NullBmap, RelExample, RelParam}, d \in {NullBmap, DomBox} }
     \ { Scenario("lexmax", RelExample, DomBox, TRUE, NoTree, 0) })
    \cup { Scenario("compute_divs", NullBmap, NullBmap, FALSE, NoTree, 0) }
    \cup { Scenario(e, RelExample,
                    [DomBox EXCEPT !.n_in = 2, !.ineq = <<>>, !.c_ineq = 0],
                    r, Tree(Leaf(<<>>, <<>>)), 0) :
             e \in {"lexmax", "lexmin"}, r \in BOOLEAN }

\* Direct calls of the encoder: every split point of every relation and
\* domain above, every padding up to MaxPad, the allocation failing or not.
EncodeScenarios ==
    UNION { { EncScenario(b, pp, ef, eb, f) :
                pp \in 0..(b.nparam + b.n_in + b.n_out + n_div(b)),
                ef \in 0..MaxPad, eb \in 0..MaxPad, f \in 0..1 } :
            b \in {RelExample, RelNested, RelTwoOut, RelParam, RelParity,
                   DomEven, DomTwoDivs} }

Scenarios ==
    GeneratedScenarios \cup CatalogueScenarios \cup FailureScenarios
    \cup RefusedScenarios \cup EncodeScenarios

\* The calls that are made again with the same arguments.
Repeated == Scenarios \ (GeneratedScenarios \cup EncodeScenarios)

\* No earlier call.
NoPrior == [set |-> FALSE, pc |-> "call", ub |-> {},
            result |-> [map |-> NullMap, empty |-> NullMap]]

NoLedger == [o \in Objects |-> [made |-> 0, freed |-> 0, moved |-> 0]]

Init ==
    \E sc \in Scenarios :
        /\ entry = sc.entry
        /\ bmapArg = sc.bmap
        /\ domArg = sc.dom
        /\ emptyReq = sc.emptyReq
        /\ solverOut = sc.solverOut
        /\ failAt = sc.failAt
        /\ pc = "call"
        /\ tick = 1
        /\ sol = NoTree
        /\ data = NoData
        /\ map = NullMap
        /\ stack = <<>>
        /\ counted = [nexist |-> 0, max_depth |-> 0, n_sol |-> 0, n_nosol |-> 0]
        /\ returns = <<>>
        /\ found = <<>>
        /\ ledger = [NoLedger EXCEPT
                       !["bmap"].made = IF sc.bmap.null THEN 0 ELSE 1,
                       !["dom"].made = IF sc.dom.null THEN 0 ELSE 1]
        /\ mats = [domain |-> NullMatrix, context |-> NullMatrix,
                   options |-> [Simplify |-> 0, Maximize |-> 0,
                                Urs_unknowns |-> 0, Urs_parms |-> 0]]
        /\ ub = {}
        /\ result = [map |-> NullMap, empty |-> Unset]
        /\ enc = sc.enc
        /\ heap = <<>>
        /\ calls = [made |-> 1, more |-> sc \in Repeated]
        /\ prior = NoPrior
        /\ steps = 0

\* The caller makes the call that returned once more, with the same
\* arguments, the same answer of the solver and the same failing operation.
CallAgain ==
    /\ pc = "done" /\ calls.more /\ calls.made < MaxCalls
    /\ steps' = 0
    /\ calls' = [calls EXCEPT !.made = @ + 1]
    /\ prior' = [set |-> TRUE, pc |-> pc, result |-> result, ub |-> ub]
    /\ pc' = "call"
    /\ tick' = 1
    /\ sol' = NoTree
    /\ data' = NoData
    /\ map' = NullMap
    /\ stack' = <<>>
    /\ counted' = [nexist |-> 0, max_depth |-> 0, n_sol |-> 0, n_nosol |-> 0]
    /\ returns' = <<>>
    /\ found' = <<>>
    /\ ledger' = [NoLedger EXCEPT
                    !["bmap"].made = IF bmapArg.null THEN 0 ELSE 1,
                    !["dom"].made = IF domArg.null THEN 0 ELSE 1]
    /\ mats' = [domain |-> NullMatrix, context |-> NullMatrix,
                options |-> [Simplify |-> 0, Maximize |-> 0,
                             Urs_unknowns |-> 0, Urs_parms |-> 0]]
    /\ ub' = {}
    /\ result' = [map |-> NullMap, empty |-> Unset]
    /\ UNCHANGED << enc, heap >>
    /\ UNCHANGED << entry, bmapArg, domArg, emptyReq, solverOut, failAt >>

Next ==
    \/ ToPip
    \/ CallAgain
    \/ ExtremumBegin
    \/ ExtremumNoSol
    \/ ComputeDivsBegin
    \/ FromQuastBegin
    \/ ScanEnter
    \/ ScanAfterThen
    \/ ScanAfterElse
    \/ FromQuastEnd
    \/ ExtremumEnd
    \/ ComputeDivsEnd

Spec == Init /\ [][Next]_vars

\* A step of the decode, as far as pc and steps show it: while pc = "scan",
\* Next allows only a step of scan_quast_r (ScanEnter, ScanAfterThen,
\* ScanAfterElse) when an activation is on the stack, and FromQuastEnd when
\* none is.
Running ==
    /\ pc = "scan"
    /\ \/ stack # <<>> /\ pc' = pc /\ steps' = steps + 1
       \/ stack = <<>> /\ pc' = "decoded" /\ steps' = steps

\* isl_map_from_quast and scan_quast_r run on the caller's thread and nothing
\* suspends them: while the decode is under way, its next step is taken.
FairSpec == Spec /\ WF_<<pc, steps>>(Running)

-----------------------------------------------------------------------------
(* The integer points of basic maps and unions, and the value a solution    *)
(* tree stands for.                                                         *)

\* The tuples of length n over S.
Tuples(n, S) == [1..n -> S]

\* Values of parameters and inputs, of outputs, and of existentials.
ParamVals == 0..PointMax
OutVals == -1..(PointMax + 1)
DivVals == 0..PointMax

\* row[1] + the sum of row[k + 1] * v[k] over k in 1..n.
RECURSIVE Linear(_, _, _)
Linear(row, v, n) ==
    IF n = 0 THEN row[1] ELSE Linear(row, v, n - 1) + row[n + 1] * v[n]

\* v, a value for every parameter, input, output and active existential of
\* bmap, satisfies every constraint of bmap.
Holds(bmap, v) ==
    /\ \A k \in 1..n_eq(bmap) : Linear(bmap.eq[k], v, Len(v)) = 0
    /\ \A k \in 1..n_ineq(bmap) : Linear(bmap.ineq[k], v, Len(v)) >= 0

\* (x, y) is a point of the basic map: some values of its existentials
\* satisfy its constraints.
InBmap(bmap, x, y) ==
    \E d \in Tuples(n_div(bmap), DivVals) : Holds(bmap, x \o y \o d)

\* x is a point of the basic set.
InBset(bset, x) == InBmap(bset, x, <<>>)

\* (x, y) is a point of the union.
InMap(m, x, y) == \E k \in 1..Len(m.p) : InBmap(m.p[k], x, y)

XPoints == Tuples(bmapArg.nparam + bmapArg.n_in, ParamVals)
YPoints == Tuples(bmapArg.n_out, OutVals)

\* a comes before b in the lexicographic order.
LexLess(a, b) ==
    \E k \in 1..Len(a) : a[k] < b[k] /\ \A j \in 1..(k - 1) : a[j] = b[j]

\* y is the greatest (lexmax) or smallest (lexmin) output of bmapArg at x.
IsOpt(x, y) ==
    /\ InBmap(bmapArg, x, y)
    /\ \A y2 \in YPoints :
          InBmap(bmapArg, x, y2) =>
             IF entry = "lexmax" THEN ~LexLess(y, y2) ELSE ~LexLess(y2, y)

\* The value of a solver vector (coefficients, then the constant) at the
\* parameter values pv.
RECURSIVE Weighted(_, _, _)
Weighted(vec, pv, n) ==
    IF n = 0 THEN vec[Len(vec)]
    ELSE Weighted(vec, pv, n - 1) + vec[n] * pv[n]

EvalVec(vec, pv) == Weighted(vec, pv, Len(vec) - 1)

\* pv extended by the values of the new parameters declared from k on.
RECURSIVE Declare(_, _, _)
Declare(decls, k, pv) ==
    IF k > Len(decls) THEN pv
    ELSE Declare(decls, k + 1,
             Append(pv, EvalVec(decls[k].vector, pv) \div decls[k].deno))

\* The answer a solution tree gives at the parameter values pv: no solution,
\* or the values of its solution list.
RECURSIVE EvalQuast(_, _)

EvalNode(q, pv) ==
    IF q.condition # <<>>
    THEN EvalQuast(IF EvalVec(q.condition, pv) >= 0 THEN q.next[1]
                   ELSE q.next[2], pv)
    ELSE [has |-> q.list # <<>>,
          y |-> [j \in 1..Len(q.list) |-> EvalVec(q.list[j], pv)]]

EvalQuast(q, pv) == EvalNode(q, Declare(q.newparm, 1, pv))

\* The values of the existentials of the domain at its point x.
ContextDivs(x) ==
    CHOOSE d \in Tuples(n_div(domArg), DivVals) : Holds(domArg, x \o d)

\* The answer of the solver at the point x of the domain.
Answer(x) ==
    IF solverOut.null THEN [has |-> FALSE, y |-> <<>>]
    ELSE EvalQuast(solverOut.q, x \o ContextDivs(x))

\* What pip_solve owes its caller: at every point of the domain the tree
\* names the optimum of bmapArg, or no solution where there is none.
AnswerRight(x, r) ==
    IF r.has
    THEN /\ Len(r.y) >= bmapArg.n_out
         /\ IsOpt(x, SubSeq(r.y, 1, bmapArg.n_out))
    ELSE \A y \in YPoints : ~InBmap(bmapArg, x, y)

SolverCorrect ==
    \A x \in XPoints : InBset(domArg, x) => AnswerRight(x, Answer(x))

\* The call is over, was a lexmax or lexmin call, and returned a map.
Succeeded ==
    pc = "done" /\ entry \in {"lexmax", "lexmin"} /\ ~result.map.null

\* No operation was made to fail during the call so far.
NoFailure == failAt = 0 \/ failAt >= tick

\* pip_solve was called.
Solved == ~mats.domain.null

\* x is the input of some point of the union.
InDomain(m, x) == \E y \in YPoints : InMap(m, x, y)

\* path a is a proper prefix of path b: b's node lies below a's.
Above(a, b) == Len(a) < Len(b) /\ SubSeq(b, 1, Len(a)) = a

\* A find_div call whose row equals, in full, the row of an active existential.
Duplicate(r) == \E j \in 1..Len(r.divs) : r.divs[j] = r.row

\* Some activation of scan_quast_r failed.
DecodeFailed == \E k \in 1..Len(returns) : ~returns[k].ok

\* The objects a lexmax or lexmin call creates for itself.
Intermediate == {"domain", "context", "options", "sol", "builder", "pos"}

-----------------------------------------------------------------------------
(* The claims.                                                              *)

\* C1: when a lexmax (lexmin) call succeeds on a tree that is the solver's
\* right answer, the returned union holds (x, y) exactly when x is in the
\* domain, (x, y) is in the relation and y is the lexicographically greatest
\* (smallest) output of the relation at x.
C1_LexOptExact ==
    (Succeeded /\ SolverCorrect) =>
        \A x \in XPoints : \A y \in YPoints :
            InMap(result.map, x, y) <=> (InBset(domArg, x) /\ IsOpt(x, y))

\* C2: after a successful call with the infeasible union requested, every
\* point of the domain lies in exactly one of the domain of the returned
\* union and the infeasible union.
C2_Coverage ==
    (Succeeded /\ emptyReq /\ ~result.empty.null) =>
        \A x \in XPoints :
            InBset(domArg, x) =>
                (InDomain(result.map, x) <=> ~InMap(result.empty, x, <<>>))

\* C3: when the decode of a tree ends successfully, the feasible union holds
\* n_sol regions and the infeasible union, when requested, n_nosol regions.
C3_LeafCounts ==
    (pc = "decoded" /\ ~sol.null /\ ~map.null) =>
        /\ Len(map.p) = counted.n_sol
        /\ data.restReq => Len(data.rest.p) = counted.n_nosol

\* C4: every activation of scan_quast_r that returns successfully leaves the
\* builder with the numbers of existentials, inequality rows and equality
\* rows it was entered with.
C4_StackDiscipline ==
    \A k \in 1..Len(returns) :
        returns[k].ok => returns[k].after = returns[k].before

C6_Dedup ==
    \A k \in 1..Len(found) :
        /\ Duplicate(found[k]) =>
              /\ found[k].after = found[k].before
              /\ found[k].pos >= 0 /\ found[k].pos < Len(found[k].divs)
              /\ found[k].divs[found[k].pos + 1] = found[k].row
        /\ \A k2 \in 1..Len(found) :
              (found[k2].row = found[k].row
               /\ Above(found[k].path, found[k2].path))
                 => found[k2].pos = found[k].pos

\* C6 witness: a declaration was repeated below the node that made it.
C6_Repeated ==
    \E k \in 1..Len(found) : \E k2 \in 1..Len(found) :
        /\ found[k2].row = found[k].row
        /\ Above(found[k].path, found[k2].path)
        /\ Duplicate(found[k2])

\* C7: if an activation of scan_quast_r failed, the lexmax or lexmin call
\* returns a NULL map and, when the infeasible union was requested, leaves
\* it NULL.
C7_AllOrNothing ==
    (pc = "done" /\ entry \in {"lexmax", "lexmin"} /\ DecodeFailed) =>
        /\ result.map.null
        /\ emptyReq => result.empty = NullMap

\* C7 witness: a call ended whose decode failed after a region was added,
\* with the infeasible union requested.
C7_FailedLate ==
    /\ pc = "done" /\ entry \in {"lexmax", "lexmin"} /\ emptyReq
    /\ \E k \in 1..Len(returns) : ~returns[k].ok /\ returns[k].n > 0

\* C8: when pip_solve returns NULL and nothing fails, no entry point reads a
\* field of the tree or ends abnormally, and each returns a map without
\* regions.
C8_NullTree ==
    (Solved /\ solverOut.null /\ failAt = 0 /\ pc \notin {"call", "solved"})
        => /\ ub = {}
           /\ pc # "crashed"
           /\ pc = "done" => (~result.map.null /\ Len(result.map.p) = 0)

\* C9: when the tree is NULL or has no leaf with a solution and nothing
\* fails, lexmax / lexmin return a union without regions and, when the
\* infeasible union was requested, the set made of the domain itself.
C9_Infeasible ==
    (Succeeded /\ Solved /\ NoFailure /\ (sol.null \/ counted.n_sol = 0)) =>
        /\ Len(result.map.p) = 0
        /\ emptyReq =>
              result.empty = [null |-> FALSE, size |-> 1, p |-> << domArg >>]

\* C9 witness: a call on a tree of several leaves, none with a solution,
\* returned with the infeasible union requested.
C9_AllLeavesInfeasible ==
    /\ Succeeded /\ Solved /\ NoFailure /\ emptyReq
    /\ ~sol.null /\ counted.n_sol = 0 /\ counted.n_nosol > 1

\* C10: when a lexmax or lexmin call ends, each of the objects it created
\* for itself has been released as often as it was created.
C10_Released ==
    (pc = "done" /\ entry \in {"lexmax", "lexmin"}) =>
        \A o \in Intermediate : ledger[o].freed = ledger[o].made

\* What pip_solve owes compute_divs: the tree has a solution at (x, y)
\* exactly when (x, y) is a point of the relation; a NULL tree has none.
DivsAnswer(x, y) ==
    IF solverOut.null THEN FALSE ELSE EvalQuast(solverOut.q, x \o y).has

DivsSolverCorrect ==
    \A x \in XPoints : \A y \in YPoints :
        DivsAnswer(x, y) <=> InBmap(bmapArg, x, y)

\* The call is over: it returned, or it ended abnormally.
Ended == pc \in {"done", "crashed"}

\* C11: when a call is over, its relation argument has been released exactly
\* once, and the domain argument of a lexmax or lexmin call has been either
\* released or handed over as the infeasible union, once in all.
C11_ArgumentsConsumed ==
    (Ended /\ entry # "to_pip") =>
        /\ ~bmapArg.null => ledger["bmap"].freed = 1
        /\ (entry \in {"lexmax", "lexmin"} /\ ~domArg.null) =>
               ledger["dom"].freed + ledger["dom"].moved = 1

\* C11 for the calls that return.
C11_Returned ==
    (pc = "done" /\ entry # "to_pip") =>
        /\ ~bmapArg.null => ledger["bmap"].freed = 1
        /\ (entry \in {"lexmax", "lexmin"} /\ ~domArg.null) =>
               ledger["dom"].freed + ledger["dom"].moved = 1

\* C12: a compute_divs call on the solver's right answer, nothing failing,
\* returns a union with exactly the points of its relation argument.
C12_RoundTrip ==
    (Ended /\ entry = "compute_divs" /\ ~bmapArg.null /\ failAt = 0
     /\ DivsSolverCorrect) =>
        /\ pc = "done" /\ ~result.map.null
        /\ \A x \in XPoints : \A y \in YPoints :
              InMap(result.map, x, y) <=> InBmap(bmapArg, x, y)

\* C12 for the calls whose tree is not NULL.
C12_TreeRoundTrip ==
    (Ended /\ entry = "compute_divs" /\ ~bmapArg.null /\ failAt = 0
     /\ DivsSolverCorrect /\ ~solverOut.null) =>
        /\ pc = "done" /\ ~result.map.null
        /\ \A x \in XPoints : \A y \in YPoints :
              InMap(result.map, x, y) <=> InBmap(bmapArg, x, y)

\* A direct call of isl_basic_map_to_pip returned a matrix.
Encoded == pc = "done" /\ entry = "to_pip" /\ ~enc.M.null

\* The number of decision variables of the direct call.
EncVars ==
    bmapArg.nparam + bmapArg.n_in + bmapArg.n_out + n_div(bmapArg)
    - enc.pip_param

\* The layout of a matrix row for the constraint row: tag, front padding,
\* decision variables, parameters, back padding, constant.
Layout(tag, row) ==
    << tag >> \o Zeros(enc.extra_front)
    \o SubSeq(row, 2 + enc.pip_param, 1 + enc.pip_param + EncVars)
    \o SubSeq(row, 2, 1 + enc.pip_param)
    \o Zeros(enc.extra_back) \o << row[1] >>

\* The matrix row written for the k-th equality, for the k-th inequality.
EqRow(k) == enc.M.p[enc.extra_front + k]
IneqRow(k) == enc.M.p[enc.extra_front + n_eq(bmapArg) + k]

\* C13: the matrix has 1 + extra_front + pip_var + pip_param + extra_back + 1
\* columns, and the row written for a constraint holds, after the tag, the
\* front padding, the coefficients of the decision variables, those of the
\* parameters, the back padding and the constant, each coefficient once.
C13_ColumnLayout ==
    Encoded =>
        /\ enc.M.ncol
              = 1 + enc.extra_front + EncVars + enc.pip_param
                + enc.extra_back + 1
        /\ \A k \in 1..n_eq(bmapArg) :
               Tail(EqRow(k)) = Tail(Layout(0, bmapArg.eq[k]))
        /\ \A k \in 1..n_ineq(bmapArg) :
               Tail(IneqRow(k)) = Tail(Layout(1, bmapArg.ineq[k]))

\* C13 witness: a matrix with padding on both sides, parameters, decision
\* variables and constraint rows.
C13_Padded ==
    /\ Encoded /\ enc.extra_front > 0 /\ enc.extra_back > 0
    /\ enc.pip_param > 0 /\ EncVars > 0
    /\ n_eq(bmapArg) > 0 /\ n_ineq(bmapArg) > 0

\* C14 as claimed: the matrix has one row per constraint, whatever the
\* front padding; the k-th row is the k-th equality with tag 0, and after
\* the equalities the k-th inequality with tag 1.
C14_RowPerConstraint ==
    Encoded =>
        /\ enc.M.nrow = n_eq(bmapArg) + n_ineq(bmapArg)
        /\ Len(enc.M.p) = enc.M.nrow
        /\ \A k \in 1..n_eq(bmapArg) :
               enc.M.p[k] = Layout(0, bmapArg.eq[k])
        /\ \A k \in 1..n_ineq(bmapArg) :
               enc.M.p[n_eq(bmapArg) + k] = Layout(1, bmapArg.ineq[k])

\* C14 amended: the matrix has extra_front rows left as allocated and then
\* one row per constraint: the equalities in their order with tag 0, then
\* the inequalities in their order with tag 1.
C14_RowsAfterPadding ==
    Encoded =>
        /\ enc.M.nrow = enc.extra_front + n_eq(bmapArg) + n_ineq(bmapArg)
        /\ Len(enc.M.p) = enc.M.nrow
        /\ \A r \in 1..enc.extra_front : enc.M.p[r] = Zeros(enc.M.ncol)
        /\ \A k \in 1..n_eq(bmapArg) : EqRow(k) = Layout(0, bmapArg.eq[k])
        /\ \A k \in 1..n_ineq(bmapArg) :
               IneqRow(k) = Layout(1, bmapArg.ineq[k])

\* C14 witness: a matrix with front padding for a relation with equalities
\* and inequalities.
C14_FrontPadded ==
    /\ Encoded /\ enc.extra_front > 0
    /\ n_eq(bmapArg) > 0 /\ n_ineq(bmapArg) > 1

\* C15: a call made again with the same arguments and the same answer of the
\* solver ends as the call before it did, with the same unions.
C15_Deterministic ==
    (Ended /\ prior.set) => (pc = prior.pc /\ result = prior.result)

\* C15 for the calls that ran into no undefined behaviour.
C15_DefinedDeterministic ==
    (Ended /\ prior.set /\ ub = {} /\ prior.ub = {}) =>
        (pc = prior.pc /\ result = prior.result)

\* C16: a leaf with a solution list that returns leaves the builder with the
\* number of equality rows it was entered with, and when nothing is made to
\* fail every such leaf returns without error.
C16_LeafEqualities ==
    \A k \in 1..Len(returns) :
        returns[k].kind = "sol" =>
            /\ returns[k].ok => returns[k].after[3] = returns[k].before[3]
            /\ failAt = 0 => returns[k].ok

\* C16 for the leaves whose list has a vector for every output dimension.
C16_FullLeafEqualities ==
    \A k \in 1..Len(returns) :
        (returns[k].kind = "sol" /\ returns[k].ok /\ ~returns[k].short) =>
            returns[k].after[3] = returns[k].before[3]

\* The activations whose child activation is on the stack.
Callers == 1..(Len(stack) - 1)

\* The condition a >= 0 turned into -a - 1 >= 0.
Negated(row) == [isl_seq_neg(row) EXCEPT ![1] = @ - 1]

\* Path a leads to a leaf visited before the leaf of path b: where the two
\* part, a takes the "then" child.
PathBefore(a, b) ==
    \E k \in 1..Len(a) :
        /\ k <= Len(b) /\ a[k] < b[k]
        /\ \A j \in 1..(k - 1) : a[j] = b[j]

\* C17: while the "then" subtree of a branch node is decoded, the row the
\* node appended after its division rows reads its condition; while the
\* "else" subtree is decoded, the row at the same index reads the negated
\* condition; when the node returns that row is gone; and the leaves of the
\* "then" subtree return before those of the "else" subtree.
C17_BranchProtocol ==
    /\ \A i \in Callers :
          LET f == stack[i]
          IN /\ f.pos < n_ineq(data.bmap)
             /\ f.phase = "then" =>
                   /\ f.pos = f.before[2]
                              + 2 * (stack[i + 1].before[1] - f.before[1])
                   /\ data.bmap.ineq[f.pos + 1] = f.cond
             /\ f.phase = "else" => data.bmap.ineq[f.pos + 1] = Negated(f.cond)
    /\ \A k \in 1..Len(returns) :
          (returns[k].kind = "branch" /\ returns[k].ok) =>
              returns[k].after[2] = returns[k].before[2]
    /\ \A k1 \in 1..Len(returns) : \A k2 \in 1..Len(returns) :
          (k1 < k2 /\ returns[k1].kind # "branch"
           /\ returns[k2].kind # "branch") =>
              PathBefore(returns[k1].path, returns[k2].path)

\* C17 witness: the "else" child of a branch node is being decoded after a
\* leaf of its "then" subtree added a region.
C17_InElse ==
    /\ pc = "scan" /\ Callers # {}
    /\ \E i \in Callers : stack[i].phase = "else" /\ stack[i].pos > 0
    /\ ~map.null /\ Len(map.p) > 0

\* The activation on top of the stack is entered on a node of the given
\* kind with a union, and returns without error in this step.
LeafReturns(kind) ==
    /\ pc = "scan" /\ stack # <<>> /\ Top.phase = "enter" /\ ~map.null
    /\ Kind(NodeAt(sol.q, Top.path)) = kind
    /\ Len(returns') = Len(returns) + 1
    /\ returns'[Len(returns')].ok

\* bset holds the rows of the builder bmap without the output columns.
Projects(bset, bmap) ==
    /\ ~bset.null /\ bset.n_out = 0
    /\ bset.nparam = bmap.nparam /\ bset.n_in = bmap.n_in
    /\ n_eq(bset) >= n_eq(bmap) /\ n_ineq(bset) >= n_ineq(bmap)
    /\ \A k \in 1..n_eq(bmap) :
          bset.eq[k]
            = DropCols(bmap.eq[k], 1 + bmap.nparam + bmap.n_in, bmap.n_out)
    /\ \A k \in 1..n_ineq(bmap) :
          bset.ineq[k]
            = DropCols(bmap.ineq[k], 1 + bmap.nparam + bmap.n_in, bmap.n_out)

\* C18: a leaf without solution that returns adds one region, the builder
\* without its output dimensions, to the infeasible union when that union
\* was requested and the feasible union holds a region already; otherwise
\* it leaves the infeasible union as it is.  It never changes the feasible
\* union.
C18_InfeasibleLeaf ==
    [][LeafReturns("nosol") =>
         /\ map' = map
         /\ IF data.restReq /\ Len(map.p) > 0
            THEN /\ Len(data'.rest.p) = Len(data.rest.p) + 1
                 /\ SubSeq(data'.rest.p, 1, Len(data.rest.p)) = data.rest.p
                 /\ Projects(data'.rest.p[Len(data'.rest.p)], data.bmap)
            ELSE data'.rest = data.rest]_vars

\* C18 witness: a decode ended in which one leaf without solution added a
\* region to the infeasible union and another one did not.
C18_BothKinds ==
    /\ pc = "decoded" /\ ~sol.null /\ ~map.null /\ data.restReq
    /\ Len(data.rest.p) > 0 /\ Len(data.rest.p) < counted.n_nosol

\* The context the builder of the call is made from: the domain argument of
\* lexmax and lexmin, the universe set made by compute_divs.
Context ==
    IF entry = "compute_divs"
    THEN isl_basic_set_alloc(bmapArg.nparam, bmapArg.n_in + bmapArg.n_out, -1)
    ELSE domArg

\* A row of the context at the width of the region: n zero columns for the
\* outputs after the inputs, zeros for the further existentials.
Padded(row, n, len) ==
    LET first == 1 + Context.nparam + Context.n_in
    IN [k \in 1..len |->
          IF k <= first THEN row[k]
          ELSE IF k <= first + n THEN 0
          ELSE IF k <= Len(row) + n THEN row[k - n]
          ELSE 0]

\* The sum of the coefficients vec has on the first q new parameters that
\* pos sends to the existential e.
RECURSIVE OnExistential(_, _, _, _, _)
OnExistential(vec, pos, pip, e, q) ==
    IF q = 0 THEN 0
    ELSE OnExistential(vec, pos, pip, e, q - 1)
         + (IF pos[q] = e THEN vec[pip + q] ELSE 0)

\* The equality 'value of vec - output j = 0' in the region, the new
\* parameters of vec at the existentials pos gives them.
LeafEquality(region, vec, j, pos) ==
    LET pip == region.nparam + region.n_in
        nb == Len(vec)
    IN [k \in 1..(1 + total(region)) |->
          IF k = 1 THEN vec[nb]
          ELSE IF k <= 1 + pip THEN vec[k - 1]
          ELSE IF k = 1 + pip + j THEN -1
          ELSE IF k <= 1 + pip + region.n_out THEN 0
          ELSE OnExistential(vec, pos, pip,
                             k - (1 + pip + region.n_out) - 1, nb - 1 - pip)]

\* The rows of the region other than the leaf's equalities: the context's
\* rows first, then for every calling activation its division rows and its
\* condition row, then the division rows of the leaf.
PathRows(region) ==
    /\ \A k \in 1..n_ineq(Context) :
          k <= n_ineq(region)
          /\ region.ineq[k]
               = Padded(Context.ineq[k], region.n_out, 1 + total(region))
    /\ stack[1].before[2] = n_ineq(Context)
    /\ \A i \in Callers :
          /\ stack[i].pos
               = stack[i].before[2]
                 + 2 * (stack[i + 1].before[1] - stack[i].before[1])
          /\ stack[i + 1].before[2] = stack[i].pos + 1
          /\ stack[i].pos < n_ineq(region)
          /\ region.ineq[stack[i].pos + 1]
               = IF stack[i].phase = "then" THEN stack[i].cond
                 ELSE Negated(stack[i].cond)
    /\ n_ineq(region)
         = Top.before[2] + 2 * (n_div(region) - Top.before[1])

\* The equality rows of the region: the context's, then one per entry of
\* the solution list for the first outputs.
LeafRows(region, list, pos) ==
    LET k == IF Len(list) < region.n_out THEN Len(list) ELSE region.n_out
    IN region.eq
         = [i \in 1..n_eq(Context) |->
               Padded(Context.eq[i], region.n_out, 1 + total(region))]
           \o [j \in 1..k |-> LeafEquality(region, list[j], j, pos)]

\* C19: a leaf with a solution that returns adds one region to the feasible
\* union; its equality rows are those of the context and one row 'value of
\* the j-th vector - output j = 0' for each of the first min(n_out, list
\* length) outputs (none for 0 outputs), and its inequality rows are the
\* context's, the division rows and the possibly negated condition rows of
\* the nodes above, and the division rows of the leaf.
C19_LeafContent ==
    [][LeafReturns("sol") =>
         /\ Len(map'.p) = Len(map.p) + 1
         /\ SubSeq(map'.p, 1, Len(map.p)) = map.p
         /\ PathRows(map'.p[Len(map'.p)])
         /\ LeafRows(map'.p[Len(map'.p)], NodeAt(sol.q, Top.path).list,
                     data'.pos)]_vars

\* C19 for the leaves before which no list was shorter than the number of
\* outputs.
C19_LeafContentNoShort ==
    [][(LeafReturns("sol") /\ \A k \in 1..Len(returns) : ~returns[k].short)
         => /\ Len(map'.p) = Len(map.p) + 1
            /\ SubSeq(map'.p, 1, Len(map.p)) = map.p
            /\ PathRows(map'.p[Len(map'.p)])
            /\ LeafRows(map'.p[Len(map'.p)], NodeAt(sol.q, Top.path).list,
                        data'.pos)]_vars

\* The record of a find_div call that allocated a fresh existential.
Fresh(r) == r.pos >= 0 /\ r.after[1] = r.before[1] + 1

\* Values for the variables of the numerator f, the variable in column col
\* taking the value v and the variables f does not mention the value 0.
ValuesWith(f, col, v) ==
    LET used == {k \in 1..(Len(f) - 1) : f[k + 1] # 0 /\ k # col - 1}
    IN { [k \in 1..(Len(f) - 1) |->
             IF k = col - 1 THEN v ELSE IF k \in used THEN a[k] ELSE 0] :
           a \in [used -> {-3, 2}] }

\* C20: a find_div call that allocates a fresh existential v for a
\* declaration with translated numerator f and denominator m > 0 appends
\* exactly two inequality rows, f - m v >= 0 with -m in the column of v and
\* -f + m v + (m - 1) >= 0, and integer values satisfy both exactly when
\* v = floor(f/m).
C20_DivisionRows ==
    \A k \in 1..Len(found) :
        LET r == found[k]
            m == r.row[1]
            f == [Tail(r.row) EXCEPT ![r.first + r.pos] = 0]
            col == r.first + r.pos
        IN Fresh(r) =>
             /\ m > 0
             /\ r.after[2] = r.before[2] + 2 /\ r.after[3] = r.before[3]
             /\ Len(r.rows) = 2
             /\ r.rows[1] = [f EXCEPT ![col] = 0 - m]
             /\ r.rows[2] = [c \in 1..Len(f) |->
                                IF c = col THEN m
                                ELSE IF c = 1 THEN (m - 1) - f[1]
                                ELSE 0 - f[c]]
             /\ \A v \in -3..3 :
                    \A w \in ValuesWith(f, col, v) :
                        (/\ Linear(r.rows[1], w, Len(w)) >= 0
                         /\ Linear(r.rows[2], w, Len(w)) >= 0)
                        <=> v = Linear(f, w, Len(w)) \div m

\* C20 witness: a fresh existential whose numerator uses an input and an
\* earlier existential.
C20_FreshNested ==
    \E k \in 1..Len(found) :
        /\ Fresh(found[k]) /\ found[k].pos > 0
        /\ found[k].row[3] # 0
        /\ found[k].row[found[k].first + found[k].pos] # 0

\* The step is the return, without error, of the activation on top of the
\* stack.
Returns ==
    /\ pc = "scan" /\ Len(returns') = Len(returns) + 1
    /\ returns'[Len(returns')].ok

\* C21: an activation that returns leaves the existentials and inequality
\* rows of the builder as they were when it was entered: what it removes
\* are the existentials it allocated, two rows for each and, at a branch
\* node, its condition row; a declaration resolved to an existing
\* existential removes nothing.  While an activation runs, the existentials
\* and the rows that were there when it was entered stay as they are.
C21_Rollback ==
    [][(Returns =>
          /\ data'.bmap.div = SubSeq(data.bmap.div, 1, Top.before[1])
          /\ data'.bmap.ineq = SubSeq(data.bmap.ineq, 1, Top.before[2])
          /\ Top.phase = "else" =>
               /\ Cardinality({k \in 1..Len(found) :
                                 found[k].path = Top.path /\ Fresh(found[k])})
                    = n_div(data.bmap) - Top.before[1]
               /\ n_ineq(data.bmap) - Top.before[2]
                    = 1 + 2 * (n_div(data.bmap) - Top.before[1]))
       /\ (pc = "scan" /\ pc' = "scan" =>
             \A i \in 1..Len(stack') :
               i <= Len(stack) =>
                 /\ n_div(data'.bmap) >= stack'[i].before[1]
                 /\ n_ineq(data'.bmap) >= stack'[i].before[2]
                 /\ SubSeq(data'.bmap.div, 1, stack'[i].before[1])
                      = SubSeq(data.bmap.div, 1, stack'[i].before[1])
                 /\ SubSeq(data'.bmap.ineq, 1, stack'[i].before[2])
                      = SubSeq(data.bmap.ineq, 1, stack'[i].before[2]))]_vars

\* C21 witness: an activation has returned in which a declaration was
\* resolved to an existential allocated by a node above it.
C21_SharedReturned ==
    \E k \in 1..Len(found) : \E k2 \in 1..Len(found) : \E n \in 1..Len(returns) :
        /\ Fresh(found[k]) /\ Above(found[k].path, found[k2].path)
        /\ ~Fresh(found[k2]) /\ found[k2].pos = found[k].pos
        /\ returns[n].path = found[k2].path /\ returns[n].ok

\* The tree q measured from its leaves up: the largest declared rank (-1
\* without declarations), the largest number of branch nodes on a path from
\* q to a leaf, the leaves with and without a solution list.
RECURSIVE Measure(_)
Measure(q) ==
    LET own == IF q.newparm = <<>> THEN -1
               ELSE CHOOSE r \in {q.newparm[k].rank : k \in 1..Len(q.newparm)} :
                      \A k \in 1..Len(q.newparm) : q.newparm[k].rank <= r
    IN IF q.condition = <<>>
       THEN [rank |-> own, depth |-> 0,
             sol |-> IF q.list # <<>> THEN 1 ELSE 0,
             nosol |-> IF q.list # <<>> THEN 0 ELSE 1]
       ELSE LET th == Measure(q.next[1])
                el == Measure(q.next[2])
            IN [rank |-> Max(own, Max(th.rank, el.rank)),
                depth |-> 1 + Max(th.depth, el.depth),
                sol |-> th.sol + el.sol, nosol |-> th.nosol + el.nosol]

\* C22: the counts isl_map_from_quast takes from quast_count for a tree:
\* the number of existentials is the largest of the seed (parameters +
\* inputs - 1) and the declared ranks, less the seed (0 without
\* declarations); the depth is the largest number of branch nodes on a path
\* from the root to a leaf; n_sol and n_nosol are the numbers of leaves with
\* and without a solution list.
C22_QuastCount ==
    (pc = "scan" /\ ~sol.null) =>
        LET seed == Context.nparam + Context.n_in - 1
            me == Measure(sol.q)
        IN /\ counted.nexist = Max(seed, me.rank) - seed
           /\ me.rank = -1 => counted.nexist = 0
           /\ counted.max_depth = me.depth
           /\ counted.n_sol = me.sol
           /\ counted.n_nosol = me.nosol

\* C22 witness: a counted tree with branch nodes below a branch node,
\* declarations and leaves of both kinds.
C22_DeepCounted ==
    /\ pc = "scan" /\ ~sol.null
    /\ counted.max_depth >= 2 /\ counted.nexist >= 2
    /\ counted.n_sol >= 2 /\ counted.n_nosol >= 1

\* The ranks declared in q are at least lo and strictly increase along every
\* path from q to a leaf.
RECURSIVE WellRanked(_, _)
WellRanked(q, lo) ==
    /\ \A k \in 1..Len(q.newparm) :
          /\ q.newparm[k].rank >= lo
          /\ k > 1 => q.newparm[k].rank > q.newparm[k - 1].rank
    /\ q.condition # <<>> =>
          \A c \in 1..2 :
              WellRanked(q.next[c],
                  IF q.newparm = <<>> THEN lo
                  ELSE q.newparm[Len(q.newparm)].rank + 1)

\* C23: in the decode of a tree whose declared ranks start after the
\* parameters, inputs and context existentials and strictly increase along
\* each path, the builder and the unions stay within what was allocated
\* for them, and no activation is refused an existential (the one find_div
\* takes before it compares included), an inequality row, an equality row
\* or a place in a union for lack of capacity.
C23_Capacity ==
    (pc = "scan" /\ ~sol.null
     /\ WellRanked(sol.q, Context.nparam + Context.n_in + n_div(Context))) =>
        /\ data.bmap.extra = Context.extra + counted.nexist
        /\ data.bmap.c_ineq
             = n_ineq(Context) + counted.max_depth + 2 * counted.nexist
        /\ data.bmap.c_eq = n_eq(Context) + data.bmap.n_out
        /\ n_div(data.bmap) <= data.bmap.extra
        /\ n_ineq(data.bmap) <= data.bmap.c_ineq
        /\ n_eq(data.bmap) <= data.bmap.c_eq
        /\ ~map.null => Len(map.p) <= map.size /\ map.size = counted.n_sol
        /\ (data.restReq /\ ~data.rest.null) =>
               /\ Len(data.rest.p) <= data.rest.size
               /\ data.rest.size = counted.n_nosol
        /\ (failAt = 0 /\ stack # <<>> /\ Top.phase = "enter" /\ ~map.null) =>
             LET q == NodeAt(sol.q, Top.path)
                 np == scan_newparms(data.bmap, data.pos, q.newparm, 1, tick,
                                     <<>>)
             IN /\ np.ok
                /\ q.condition # <<>> =>
                     add_inequality(np.bmap, np.pos, q.condition, np.t).ok
                /\ (q.condition = <<>> /\ q.list # <<>>) =>
                     /\ add_equalities(np.bmap, np.pos, q.list, 0, np.t).ok
                     /\ Len(map.p) < map.size
                /\ (q.condition = <<>> /\ q.list = <<>> /\ wants_rest(map, data))
                     => Len(data.rest.p) < data.rest.size

\* C23 witness: the builder is full: every existential and every
\* inequality row allocated for it is in use.
C23_Full ==
    /\ pc = "scan" /\ ~sol.null /\ failAt = 0
    /\ WellRanked(sol.q, Context.nparam + Context.n_in + n_div(Context))
    /\ data.bmap.extra > n_div(Context)
    /\ n_div(data.bmap) = data.bmap.extra
    /\ n_ineq(data.bmap) = data.bmap.c_ineq

C25_DepthFirst ==
    /\ (pc = "scan") ~> (pc # "scan")
    /\ [](pc = "decoded" /\ ~sol.null /\ returns # <<>> /\ ~DecodeFailed =>
            /\ Len(returns)
                 = 2 * (Measure(sol.q).sol + Measure(sol.q).nosol) - 1
            /\ \A k1 \in 1..Len(returns) : \A k2 \in 1..Len(returns) :
                  k1 < k2 =>
                      /\ returns[k1].path # returns[k2].path
                      /\ \/ Above(returns[k2].path, returns[k1].path)
                         \/ PathBefore(returns[k1].path, returns[k2].path)
            /\ \A k \in 1..Len(returns) :
                  /\ Kind(NodeAt(sol.q, returns[k].path)) = returns[k].kind
                  /\ returns[k].kind = "sol" =>
                        returns[k].n
                          = Cardinality({j \in 1..k : returns[j].kind = "sol"})
            /\ Len(map.p) = Measure(sol.q).sol)

\* C25 witness: a decode ended without failure on a tree with branch nodes
\* in both subtrees of the root and several leaves with a solution.
C25_WholeTree ==
    /\ pc = "decoded" /\ ~sol.null /\ ~DecodeFailed /\ Len(map.p) >= 3
    /\ \E k1 \in 1..Len(returns) : \E k2 \in 1..Len(returns) :
          /\ returns[k1].kind = "branch" /\ returns[k1].path = <<1>>
          /\ returns[k2].kind = "branch" /\ returns[k2].path = <<2>>

\* C26: a find_div call that returned the index of an existing existential
\* built a row equal, denominator and every coefficient, to the row of that
\* existential; a call whose row differs from the row of every active
\* existential allocated a fresh one and appended its two rows.
C26_NoFalseMerge ==
    \A k \in 1..Len(found) :
        found[k].pos >= 0 =>
            /\ ~Fresh(found[k])
                  => found[k].divs[found[k].pos + 1] = found[k].row
            /\ ~Duplicate(found[k])
                  => Fresh(found[k]) /\ Len(found[k].rows) = 2

\* C27: in every step in which an activation of scan_quast_r translates
\* vectors, each declaration writes the position map at an index
\* rank - (parameters + inputs) inside the map, and each entry read for a
\* declaration, the condition or a solution vector lies inside the map, names
\* an existential that is active when it is read, and holds what the context
\* (its own index) or the declaration of that rank on the path to this node
\* put there.
C27_PositionMap ==
    [][(pc = "scan" /\ stack # <<>> /\ Top.phase = "enter" /\ ~map.null) =>
        LET q == NodeAt(sol.q, Top.path)
            pip == data.bmap.nparam + data.bmap.n_in
            n == Len(found') - Len(found)
            OnPath(i) ==
                {k \in 1..Len(found') :
                    /\ found'[k].rank - pip = i
                    /\ \/ found'[k].path = Top.path
                       \/ Above(found'[k].path, Top.path)}
            Valid(i, nd) ==
                /\ i + 1 <= Len(data'.pos)
                /\ data'.pos[i + 1] >= 0 /\ data'.pos[i + 1] < nd
                /\ IF i < n_div(Context) THEN data'.pos[i + 1] = i
                   ELSE \E k \in OnPath(i) : found'[k].pos = data'.pos[i + 1]
            Reads(v) == 0..(Len(v) - 2 - pip)
            nd == n_div(data.bmap)
                  + Cardinality({k \in (Len(found) + 1)..Len(found') :
                                    Fresh(found'[k])})
            rest == (IF q.condition # <<>> THEN {q.condition} ELSE {})
                    \cup {q.list[j] : j \in {j \in 1..Len(q.list) :
                                                 j <= data.bmap.n_out}}
        IN /\ \A k \in 1..n :
                 /\ found'[Len(found) + k].rank - pip >= 0
                 /\ found'[Len(found) + k].rank - pip < Len(data.pos)
                 /\ \A i \in Reads(q.newparm[k].vector) :
                        /\ i < found'[Len(found) + k].rank - pip
                        /\ Valid(i, found'[Len(found) + k].before[1])
           /\ n = Len(q.newparm) =>
                 \A v \in rest : \A i \in Reads(v) : Valid(i, nd)]_vars

\* C27 witness: a node of the "else" subtree declared a new parameter of a
\* rank that a node of the "then" subtree had declared before, got another
\* existential for it, and its solution vectors were translated.
C27_RankReused ==
    \E k1 \in 1..Len(found) : \E k2 \in 1..Len(found) :
        /\ k1 < k2 /\ found[k1].rank = found[k2].rank
        /\ found[k1].pos >= 0 /\ found[k2].pos >= 0
        /\ found[k1].pos # found[k2].pos
        /\ ~Above(found[k1].path, found[k2].path)
        /\ found[k1].path # found[k2].path
        /\ \E r \in 1..Len(returns) :
              /\ returns[r].path = found[k2].path
              /\ returns[r].kind = "sol" /\ returns[r].ok

\* C28: every row an activation of scan_quast_r translates from a solver
\* vector (the numerator of a declaration, the condition, a solution vector)
\* has zero in the columns of the outputs and, at all values of the
\* variables, the value the vector has when each new parameter takes the
\* value of the existential the position map gives for it; the row of a
\* solution vector has -1 in the column of its output besides.
C28_SameValue ==
    [][(pc = "scan" /\ stack # <<>> /\ Top.phase = "enter" /\ ~map.null) =>
        LET q == NodeAt(sol.q, Top.path)
            b == data.bmap
            pip == b.nparam + b.n_in
            AtValues(v, w) ==
                EvalVec(v, [c \in 1..(Len(v) - 1) |->
                               IF c <= pip THEN w[c]
                               ELSE w[pip + b.n_out + data'.pos[c - pip] + 1]])
            Same(row, v, out) ==
                /\ Len(row) = 1 + total(b)
                /\ \A j \in 1..b.n_out :
                      row[1 + pip + j] = IF j = out THEN -1 ELSE 0
                /\ \A w \in [1..total(b) -> {-3, 2}] :
                      Linear(row, w, total(b))
                        = AtValues(v, w) - (IF out = 0 THEN 0 ELSE w[pip + out])
            m == Cardinality({j \in 1..Len(q.list) : j <= b.n_out})
        IN /\ \A k \in 1..(Len(found') - Len(found)) :
                 Same(Tail(found'[Len(found) + k].row),
                      q.newparm[k].vector, 0)
           /\ Len(stack') > Len(stack) =>
                 Same(stack'[Len(stack)].cond, q.condition, 0)
           /\ (~map'.null /\ Len(map'.p) > Len(map.p)) =>
                 \A j \in 1..m :
                     Same(map'.p[Len(map'.p)].eq[
                              n_eq(map'.p[Len(map'.p)]) - m + j],
                          q.list[j], j)]_vars

\* C28 witness: a region was added for a solution vector with nonzero
\* coefficients on two new parameters that stand for the same existential.
C28_Summed ==
    \E r \in 1..Len(returns) :
        /\ returns[r].kind = "sol" /\ returns[r].ok
        /\ \E k1 \in 1..Len(found) : \E k2 \in 1..Len(found) :
              /\ found[k1].path = returns[r].path
              /\ found[k2].path = returns[r].path
              /\ found[k1].rank < found[k2].rank
              /\ found[k1].pos = found[k2].pos /\ found[k1].pos >= 0
              /\ \E v \in {NodeAt(sol.q, returns[r].path).list[j] :
                            j \in 1..Len(NodeAt(sol.q, returns[r].path).list)} :
                    /\ v[found[k1].rank + 1] # 0
                    /\ v[found[k2].rank + 1] # 0

\* C29: once an activation of scan_quast_r has failed, the feasible union is
\* NULL and stays NULL, no step of the scan changes the infeasible union or
\* processes a declaration, an activation that is entered returns at once
\* without touching the builder, and every activation that returns returns
\* the failure.
C29_NothingAfterFailure ==
    [][(pc = "scan" /\ DecodeFailed) =>
        /\ map.null /\ map'.null
        /\ stack # <<>> =>
              /\ data'.rest = data.rest
              /\ found' = found
              /\ Top.phase = "enter" =>
                    /\ Len(stack') = Len(stack) - 1
                    /\ data' = data
              /\ Len(returns') > Len(returns) =>
                    ~returns'[Len(returns')].ok]_vars

\* C29 witness: an activation failed after regions had been added to both
\* unions, and a leaf with a solution is entered afterwards.
C29_LeafAfterFailure ==
    /\ pc = "scan" /\ stack # <<>> /\ Top.phase = "enter"
    /\ Kind(NodeAt(sol.q, Top.path)) = "sol"
    /\ \E k \in 1..Len(returns) :
          ~returns[k].ok /\ returns[k].n > 0 /\ returns[k].nrest > 0

\* C30: no step of the scan changes a region that is already in the
\* feasible or in the infeasible union, and the region a leaf adds holds the
\* rows and existentials the builder had when the node was entered, followed
\* by those the leaf itself added (two rows per fresh existential, one
\* equality per pinned output), whatever the builder holds after the step.
C30_Snapshot ==
    [][(pc = "scan" /\ stack # <<>>) =>
        LET b == data.bmap
            q == NodeAt(sol.q, Top.path)
            fresh == Cardinality({k \in (Len(found) + 1)..Len(found') :
                                     Fresh(found'[k])})
            m == Cardinality({j \in 1..Len(q.list) : j <= b.n_out})
            first == 1 + b.nparam + b.n_in
        IN /\ (~map.null /\ ~map'.null) =>
                 /\ SubSeq(map'.p, 1, Len(map.p)) = map.p
                 /\ Len(map'.p) # Len(map.p) =>
                       LET r == map'.p[Len(map'.p)]
                       IN /\ Len(map'.p) = Len(map.p) + 1
                          /\ Counts(r) = << n_div(b) + fresh,
                                            n_ineq(b) + 2 * fresh,
                                            n_eq(b) + m >>
                          /\ SubSeq(r.div, 1, n_div(b)) = b.div
                          /\ SubSeq(r.ineq, 1, n_ineq(b)) = b.ineq
                          /\ SubSeq(r.eq, 1, n_eq(b)) = b.eq
           /\ (~data.rest.null /\ ~data'.rest.null) =>
                 /\ SubSeq(data'.rest.p, 1, Len(data.rest.p)) = data.rest.p
                 /\ Len(data'.rest.p) # Len(data.rest.p) =>
                       LET r == data'.rest.p[Len(data'.rest.p)]
                       IN /\ Len(data'.rest.p) = Len(data.rest.p) + 1
                          /\ Counts(r) = << n_div(b) + fresh,
                                            n_ineq(b) + 2 * fresh, n_eq(b) >>
                          /\ \A k \in 1..n_ineq(b) :
                                r.ineq[k] = DropCols(b.ineq[k], first, b.n_out)
                          /\ \A k \in 1..n_eq(b) :
                                r.eq[k] = DropCols(b.eq[k], first, b.n_out)]_vars

\* C30 witness: the "else" subtree of a node is being decoded, and a region
\* added in its "then" subtree holds the node's condition row where the
\* builder now holds the negated row; the region also has an equality the
\* builder no longer has, and the infeasible union has a region.
C30_RegionKept ==
    /\ pc = "scan" /\ ~map.null /\ ~data.rest.null /\ Len(data.rest.p) > 0
    /\ \E i \in 1..Len(stack) : \E n \in 1..Len(map.p) :
          /\ stack[i].phase = "else"
          /\ n_ineq(map.p[n]) > stack[i].pos
          /\ map.p[n].ineq[stack[i].pos + 1] = stack[i].cond
          /\ data.bmap.ineq[stack[i].pos + 1] # stack[i].cond
          /\ n_eq(map.p[n]) > n_eq(data.bmap)

\* C31: the matrices an entry point hands to the solver agree in width.  The
\* context matrix has two columns more than there are parameters of the
\* problem: parameters, inputs and context existentials for lexmax and
\* lexmin; parameters, inputs and outputs for compute_divs, whose context
\* has no row.  The domain matrix has those columns and one more for every
\* decision variable, the outputs and the relation's existentials for lexmax
\* and lexmin, the relation's existentials alone for compute_divs, a number
\* that is never negative.  Every row has as many entries as its matrix has
\* columns.
C31_WidthAgreement ==
    (~mats.domain.null /\ ~mats.context.null) =>
        LET vars_ == mats.domain.ncol - mats.context.ncol
        IN /\ vars_ >= 0 /\ vars_ - n_div(bmapArg) >= 0
           /\ \A r \in 1..mats.domain.nrow :
                 Len(mats.domain.p[r]) = mats.domain.ncol
           /\ \A r \in 1..mats.context.nrow :
                 Len(mats.context.p[r]) = mats.context.ncol
           /\ Len(mats.domain.p) = mats.domain.nrow
           /\ Len(mats.context.p) = mats.context.nrow
           /\ IF entry = "compute_divs"
              THEN /\ mats.context.ncol
                        = bmapArg.nparam + bmapArg.n_in + bmapArg.n_out + 2
                   /\ mats.context.nrow = 0
                   /\ vars_ = n_div(bmapArg)
              ELSE /\ mats.context.ncol
                        = (bmapArg.nparam + bmapArg.n_in) + n_div(domArg) + 2
                   /\ mats.context.ncol
                        = domArg.nparam + domArg.n_in + n_div(domArg) + 2
                   /\ vars_ = bmapArg.n_out + n_div(bmapArg)

\* C31 witness: lexmax was given a relation with two outputs and a context
\* with an existential, and both matrices were made.
C31_ContextExistential ==
    /\ entry = "lexmax" /\ pc = "solved"
    /\ ~mats.domain.null /\ ~mats.context.null
    /\ n_div(domArg) > 0 /\ bmapArg.n_out > 1
    /\ mats.domain.nrow > 0 /\ mats.context.nrow > 0

\* C32: a lexmax or lexmin call whose relation or domain is NULL, or whose
\* relation and domain differ in the number of parameters or in the number
\* of inputs, returns NULL at once: no matrix, options or tree is made and
\* no fallible operation is attempted, hence the solver is not called; each
\* argument that is not NULL is released once and not handed over; *empty
\* keeps the value it had before the call.
C32_Refused ==
    (/\ entry \in {"lexmax", "lexmin"} /\ pc # "call"
     /\ \/ bmapArg.null \/ domArg.null
        \/ bmapArg.nparam # domArg.nparam
        \/ bmapArg.n_in # domArg.n_in) =>
        /\ pc = "done" /\ result.map.null /\ result.empty = Unset
        /\ ~Solved /\ mats.context.null /\ sol.null /\ tick = 1
        /\ \A o \in Intermediate : ledger[o].made = 0
        /\ \A o \in {"bmap", "dom"} :
              /\ ledger[o].freed = ledger[o].made /\ ledger[o].moved = 0
        /\ ledger["bmap"].made = (IF bmapArg.null THEN 0 ELSE 1)
        /\ ledger["dom"].made = (IF domArg.null THEN 0 ELSE 1)
        /\ ub = {}

\* C32 witness: a call with the infeasible union requested returned, whose
\* relation and domain agree in the parameters and differ in the inputs.
C32_InputsDiffer ==
    /\ entry \in {"lexmax", "lexmin"} /\ pc = "done" /\ emptyReq
    /\ ~bmapArg.null /\ ~domArg.null
    /\ bmapArg.nparam = domArg.nparam /\ bmapArg.n_in # domArg.n_in
    /\ ledger["bmap"].freed = 1 /\ ledger["dom"].freed = 1

====
